---- MODULE Spec2Model ----
(***************************************************************************)
(* Stay Liquid (alistairheath/stay-liquid): the native tab bar overlay     *)
(* plugin and its image-icon pipeline.                                     *)
(*                                                                         *)
(* Three state machines share this module:                                 *)
(*   Spec        the iOS plugin (TabsBarPlugin) driving a TabsBarOverlay   *)
(*               through blocks dispatched to the main queue; the          *)
(*               repository holds a UIKit overlay and a SwiftUI overlay,   *)
(*               and the variable `variant` fixes which one is built;      *)
(*   SpecNative  the Swift ImageUtils loader (processImageIcon,            *)
(*               loadImageFromUrl, clearCache);                            *)
(*   SpecWeb     the web ImageManager / TabsBarWeb loader.                 *)
(***************************************************************************)
EXTENDS Integers, Sequences, FiniteSets, TLC

(* ------------------------------------------------------------------ *)
(* Bounds                                                              *)
(* ------------------------------------------------------------------ *)
MaxItems == 2
MaxQueue == 2
MaxCalls == 3
MaxEvents == 1

Nil == "<nil>"

(* ids a host passes: two real ids, the empty id, and one never configured *)
ItemIds == {"a", "b", ""}
UnknownId == "zz"

Range(s) == {s[i] : i \in DOMAIN s}

SeqsUpTo(S, n) == UNION {[1..k -> S] : k \in 0..n}

(* ================================================================== *)
(* Part I - TabsBarPlugin and TabsBarOverlay                           *)
(* ================================================================== *)

VARIABLES
    variant,          \* "uikit" | "swiftui": which TabsBarOverlay is built
    hostVC,           \* bridge?.viewController is non-nil
    overlayVC,        \* TabsBarPlugin.overlayVC is non-nil
    items,            \* overlay.items / overlay.currentItems: Seq([id, badge])
    barBadges,        \* UIKit: tabBar.items[i].badgeValue
    selectedIdx,      \* UIKit: index of tabBar.selectedItem, 0 when nil
    currentInitialId, \* SwiftUI: overlay.currentInitialId
    hostingController,\* SwiftUI: overlay.hostingController is non-nil
    mounted,          \* SwiftUI: TabsBarView has been rendered, @State storage exists
    viewSelectedId,   \* SwiftUI: TabsBarView.selectedId (@State)
    hidden,           \* overlay.view.isHidden
    crashed,          \* the process trapped
    mainQueue,        \* blocks handed to DispatchQueue.main.async, FIFO
    nCalls,           \* plugin calls issued so far
    events,           \* "selected" events notified to the host
    lastOp            \* the operation performed by the last step

tabVars == <<variant, hostVC, overlayVC, items, barBadges, selectedIdx, currentInitialId,
             hostingController, mounted, viewSelectedId, hidden, crashed,
             mainQueue, nCalls, events, lastOp>>

(* the classifier (Part II) *)
VARIABLES
    source,       \* the image source handed to the classifier
    webClass,     \* what ImageManager.loadImage made of it, "none" before
    nativeClass   \* what ImageUtils.processImageIcon made of it, "none" before

classifyVars == <<source, webClass, nativeClass>>

(* the Swift loader (Part III) *)
VARIABLES
    imageCache,     \* ImageUtils.imageCache: source -> fetch whose image is cached, 0 when absent
    loadingStates,  \* ImageUtils.loadingStates: source -> "absent" | "true" | "false"
    requests,       \* the calls of processImageIcon, in order
    tasks,          \* the URLSession data tasks started, in order
    clears,         \* calls of clearCache so far
    trapped,        \* a racing access to the static dictionaries trapped
    lastLoad        \* the loader step performed last

nativeVars == <<imageCache, loadingStates, requests, tasks, clears, trapped, lastLoad>>

(* the web loader (Part IV) *)
VARIABLES
    cache,            \* ImageManager.cache: url -> fetch whose blob is cached, 0 when absent
    loadingPromises,  \* ImageManager.loadingPromises: url -> fetch, 0 when absent
    fetches,          \* the calls of fetchAndCacheImage, in order
    loads,            \* the promises built by preloadItemImage, in order
    tabStates,        \* TabsBarWeb.loadingStates: tab id -> "none"|"loading"|"loaded"|"error"
    imageLoadPromises,\* TabsBarWeb.imageLoadPromises: tab id -> load, 0 when absent
    configures,       \* the calls of TabsBarWeb.configure, in order
    webClears,        \* calls of clearImageCache so far
    lastWeb           \* the web step performed last

webVars == <<cache, loadingPromises, fetches, loads, tabStates, imageLoadPromises,
             configures, webClears, lastWeb>>

(* the icon of one tab (Part V) *)
VARIABLES
    iconVariant,    \* "uikit" | "swiftui": which overlay shows the tab
    iconItem,       \* the item as the host configured it
    iconColors,     \* selectedIconColor / unselectedIconColor, Nil when unset
    isSelected,     \* the tab is the selected one
    appeared,       \* the first load of the icon was started
    iconFetch,      \* the item's URL in ImageUtils: "idle" | "inflight" | "cached" | "failed"
    iconOwner,      \* the call whose data task is in flight: <<isSelected it captured>>
    iconPollers,    \* calls re-arming asyncAfter: the isSelected each captured
    iconQueue,      \* blocks on the main queue, FIFO
    iconImage,      \* SwiftUI: TabIconView.iconImage; UIKit: tabBarItem.image
    selectedImage,  \* UIKit: tabBarItem.selectedImage
    nLoads,         \* calls of processImageIcon so far
    nToggles,       \* selection changes so far
    lastIcon        \* the step taken last

iconVars == <<iconVariant, iconItem, iconColors, isSelected, appeared, iconFetch, iconOwner,
              iconPollers, iconQueue, iconImage, selectedImage, nLoads, nToggles, lastIcon>>

(* icon colours (Part VI) *)
VARIABLES
    colorPlatform,  \* "uikit" | "swiftui" | "web": which implementation runs
    colorQueue,     \* the update blocks of configure on the main queue
    overlayColors,  \* overlay.selectedIconColor / unselectedIconColor
    tabBarTint,     \* UIKit: tabBar.tintColor / unselectedItemTintColor, None for the default
    colorCall,      \* the last configure: its colour options, outcome and warnings
    nColorCalls,    \* configure calls so far
    lastColor       \* the step taken last

colorVars == <<colorPlatform, colorQueue, overlayColors, tabBarTint, colorCall,
               nColorCalls, lastColor>>

(* the colour utilities applied to one string (Part VII) *)
VARIABLES
    utilInput,   \* the colour string handed in
    utilOp,      \* the function applied to it, "none" before
    utilResult   \* what it returned: None for null / nil, Some(value) otherwise

utilVars == <<utilInput, utilOp, utilResult>>

(* the image cache over time (Part VIII) *)
VARIABLES
    cachePlatform,  \* "web": ImageManager | "ios": ImageUtils
    clock,          \* Date.now(), in ticks
    entries,        \* the cache: url -> None | Some([timestamp, objectUrl])
    pending,        \* loadingPromises / loadingStates: url -> the fetch in flight, 0 when none
    transfers,      \* the fetches started, in order: [url, st], st "net" until settled
    retries,        \* iOS: asyncAfter blocks waiting to call loadImageFromUrl again, per url
    created,        \* object URLs made by URL.createObjectURL
    revoked,        \* object URLs given to URL.revokeObjectURL
    nCacheLoads,    \* requests made so far
    nCacheClears,   \* calls of clearCache so far
    lastCache       \* the cache step performed last

cacheVars == <<cachePlatform, clock, entries, pending, transfers, retries, created, revoked,
               nCacheLoads, nCacheClears, lastCache>>

(* the geometry of an icon (Part IX) *)
VARIABLES
    geomVariant,  \* "uikit" | "swiftui": whose ImageUtils draws
    bitmap,       \* the size of the image at hand
    ringWidth,    \* ring.width ?? 2.0
    styled,       \* applyImageIconStyling has drawn it
    ringed,       \* a ring was added
    lastDraw      \* the drawing made last

geomVars == <<geomVariant, bitmap, ringWidth, styled, ringed, lastDraw>>

vars == <<tabVars, classifyVars, nativeVars, webVars, iconVars, colorVars, utilVars, cacheVars,
          geomVars>>

(* each part of the program steps on its own state *)
TabFrame == UNCHANGED <<classifyVars, nativeVars, webVars, iconVars, colorVars, utilVars, cacheVars, geomVars>>
ClassifyFrame == UNCHANGED <<tabVars, nativeVars, webVars, iconVars, colorVars, utilVars, cacheVars, geomVars>>
NativeFrame == UNCHANGED <<tabVars, classifyVars, webVars, iconVars, colorVars, utilVars, cacheVars, geomVars>>
WebFrame == UNCHANGED <<tabVars, classifyVars, nativeVars, iconVars, colorVars, utilVars, cacheVars, geomVars>>
IconFrame == UNCHANGED <<tabVars, classifyVars, nativeVars, webVars, colorVars, utilVars, cacheVars, geomVars>>
ColorFrame == UNCHANGED <<tabVars, classifyVars, nativeVars, webVars, iconVars, utilVars, cacheVars, geomVars>>
UtilFrame == UNCHANGED <<tabVars, classifyVars, nativeVars, webVars, iconVars, colorVars, cacheVars, geomVars>>
CacheFrame == UNCHANGED <<tabVars, classifyVars, nativeVars, webVars, iconVars, colorVars, utilVars, geomVars>>
GeomFrame == UNCHANGED <<tabVars, classifyVars, nativeVars, webVars, iconVars, colorVars, utilVars, cacheVars>>

(* --- badge values ------------------------------------------------- *)
NoBadge == [k |-> "none", n |-> 0]
DotBadge == [k |-> "dot", n |-> 0]
NumBadge(n) == [k |-> "num", n |-> n]

(* values a host can put in `badge` / `value`: null, "dot", numbers, junk *)
JSNull == [k |-> "null", n |-> 0]
JSDot == [k |-> "dot", n |-> 0]
JSNum(n) == [k |-> "num", n |-> n]
JSBadgeValues == {JSNull, JSDot, JSNum(0), JSNum(3), JSNum(-1)}
ConfigBadgeValues == {JSNull, JSNum(0)}

(* JSBadge.init(from:) followed by the badge closure of configure *)
DecodeBadge(js) ==
    CASE js.k = "null" -> NoBadge
      [] js.k = "dot"  -> DotBadge
      [] js.k = "num"  -> NumBadge(js.n)
      [] OTHER         -> NoBadge

(* the badgeValue closure of TabsBarPlugin.setBadge *)
SetBadgeValue(js) ==
    CASE js.k = "dot"  -> DotBadge
      [] js.k = "null" -> NoBadge
      [] js.k = "num"  -> IF js.n < 0 THEN NoBadge ELSE NumBadge(js.n)
      [] OTHER         -> NoBadge

(* what a tab shows as its badge *)
ShownNone == [k |-> "none", n |-> 0]
ShownDot == [k |-> "dot", n |-> 0]
ShownText(n) == [k |-> "text", n |-> n]

(* TabsBarOverlay.applyBadge (UIKit) *)
applyBadge(badge) ==
    CASE badge.k = "num" -> IF badge.n > 0 THEN ShownText(badge.n) ELSE ShownNone
      [] badge.k = "dot" -> ShownDot
      [] OTHER           -> ShownNone

(* TabIconView.body / BadgeView.body (SwiftUI) *)
BadgeView(badge) ==
    CASE badge.k = "num" -> ShownText(badge.n)
      [] badge.k = "dot" -> ShownDot
      [] OTHER           -> ShownNone

(* --- helpers over item lists -------------------------------------- *)
IdsOf(its) == {its[i].id : i \in DOMAIN its}

HasDuplicateIds(its) == \E i, j \in DOMAIN its : i # j /\ its[i].id = its[j].id

HasEmptyId(its) == \E i \in DOMAIN its : its[i].id = ""

(* items.firstIndex(where: { $0.id == id }), 0 when absent *)
firstIndex(its, id) ==
    IF id \in IdsOf(its)
    THEN CHOOSE i \in DOMAIN its : its[i].id = id /\ \A j \in 1..(i-1) : its[j].id # id
    ELSE 0

(* idToIndex[id] of the UIKit overlay, 0 when absent; built by            *)
(* Dictionary(uniqueKeysWithValues:), so only defined for distinct ids     *)
idToIndex(its, id) == firstIndex(its, id)

(* TabsBarView.init: State(initialValue: initialId ?? items.first?.id) *)
TabsBarViewInit(its, initialId) ==
    IF initialId # Nil THEN initialId
    ELSE IF Len(its) > 0 THEN its[1].id ELSE Nil

(* the id of the tab the bar shows as selected *)
SelectedId ==
    IF variant = "uikit"
    THEN IF selectedIdx \in DOMAIN items THEN items[selectedIdx].id ELSE Nil
    ELSE IF mounted THEN viewSelectedId
         ELSE TabsBarViewInit(items, currentInitialId)

(* the badge every tab shows, by position *)
ShownBadges ==
    IF variant = "uikit" THEN barBadges
    ELSE [i \in DOMAIN items |-> BadgeView(items[i].badge)]

Visible == overlayVC /\ ~hidden

(* --- inputs -------------------------------------------------------- *)
(* item lists a host configures: ids are named in order of first use ("a"   *)
(* before "b"), any id may be repeated or empty, and the first item may     *)
(* carry a badge                                                            *)
IdLists ==
    {l \in SeqsUpTo(ItemIds, MaxItems) :
        \A i \in DOMAIN l : l[i] = "b" => \E j \in 1..(i-1) : l[j] = "a"}
ItemLists ==
    {[i \in DOMAIN l |-> [id |-> l[i], badge |-> IF i = 1 THEN b ELSE JSNull]] :
        l \in IdLists, b \in ConfigBadgeValues}
InitialIds == {Nil, "b", UnknownId}
CallIds == {Nil, "a", "b", UnknownId}

(* a block handed to DispatchQueue.main.async; `resolves` counts the       *)
(* completions its call has already received when the block is queued      *)
Block(op, its, initialId, visible, id, value, resolves) ==
    [op |-> op, items |-> its, initialId |-> initialId, visible |-> visible,
     id |-> id, value |-> value, resolves |-> resolves]

Op(op, id, flags, resolves, rejects) ==
    [op |-> op, id |-> id, flags |-> flags, resolves |-> resolves, rejects |-> rejects]

(* the items closure of configure: JSItem -> TabsBarItem *)
ToTabsBarItems(jsItems) ==
    [i \in DOMAIN jsItems |-> [id |-> jsItems[i].id, badge |-> DecodeBadge(jsItems[i].badge)]]

ConfigFlags(hasItems, jsItems) ==
    (IF ~hasItems THEN {"missing"} ELSE {})
    \cup (IF hasItems /\ jsItems = <<>> THEN {"empty"} ELSE {})
    \cup (IF hasItems /\ HasEmptyId(jsItems) THEN {"emptyId"} ELSE {})
    \cup (IF hasItems /\ HasDuplicateIds(jsItems) THEN {"dup"} ELSE {})

(* the guards of TabsBarPlugin.configure: TRUE when the call is rejected *)
ConfigureRejects(hasItems, jsItems) ==
    \/ ~hasItems
    \/ jsItems = <<>>
    \/ \E i \in DOMAIN jsItems : jsItems[i].id = ""

TabStart ==
    /\ overlayVC = FALSE
    /\ items = <<>>
    /\ barBadges = <<>>
    /\ selectedIdx = 0
    /\ currentInitialId = Nil
    /\ hostingController = FALSE
    /\ mounted = FALSE
    /\ viewSelectedId = Nil
    /\ hidden = FALSE
    /\ crashed = FALSE
    /\ mainQueue = <<>>
    /\ nCalls = 0
    /\ events = <<>>
    /\ lastOp = Op("init", Nil, {}, 0, 0)

(* the build chooses the overlay (SwiftUI or UIKit); the app may or may   *)
(* not have a root view controller to attach it to                        *)
TabInit ==
    /\ variant \in {"uikit", "swiftui"}
    /\ hostVC \in BOOLEAN
    /\ TabStart

TabIdle ==
    /\ variant = "uikit"
    /\ hostVC = TRUE
    /\ TabStart

overlayVars == <<overlayVC, items, barBadges, selectedIdx, currentInitialId,
                 hostingController, mounted, viewSelectedId, hidden, crashed>>

CanCall == ~crashed /\ nCalls < MaxCalls

(* TabsBarPlugin.configure, up to and including call.resolve() *)
configure ==
    /\ CanCall
    /\ \E hasItems \in BOOLEAN, jsItems \in ItemLists, initialId \in InitialIds,
          visible \in BOOLEAN :
        /\ hasItems \/ (jsItems = <<>> /\ initialId = Nil /\ visible)
        /\ IF ConfigureRejects(hasItems, jsItems)
           THEN /\ mainQueue' = mainQueue
                /\ lastOp' = Op("configure", Nil, ConfigFlags(hasItems, jsItems), 0, 1)
           ELSE /\ Len(mainQueue) < MaxQueue
                /\ mainQueue' = Append(mainQueue,
                       Block("update", ToTabsBarItems(jsItems), initialId, visible,
                             Nil, NoBadge, 1))
                /\ lastOp' = Op("configure", Nil, ConfigFlags(hasItems, jsItems), 1, 0)
    /\ nCalls' = nCalls + 1
    /\ UNCHANGED <<variant, hostVC, overlayVars, events>>
    /\ TabFrame

(* TabsBarPlugin.show / hide *)
show ==
    /\ CanCall
    /\ Len(mainQueue) < MaxQueue
    /\ mainQueue' = Append(mainQueue, Block("show", <<>>, Nil, TRUE, Nil, NoBadge, 1))
    /\ lastOp' = Op("show", Nil, {}, 1, 0)
    /\ nCalls' = nCalls + 1
    /\ UNCHANGED <<variant, hostVC, overlayVars, events>>
    /\ TabFrame

hide ==
    /\ CanCall
    /\ Len(mainQueue) < MaxQueue
    /\ mainQueue' = Append(mainQueue, Block("hide", <<>>, Nil, TRUE, Nil, NoBadge, 1))
    /\ lastOp' = Op("hide", Nil, {}, 1, 0)
    /\ nCalls' = nCalls + 1
    /\ UNCHANGED <<variant, hostVC, overlayVars, events>>
    /\ TabFrame

(* TabsBarPlugin.select *)
select ==
    /\ CanCall
    /\ \E id \in CallIds :
        IF id = Nil
        THEN /\ mainQueue' = mainQueue
             /\ lastOp' = Op("select", id, {"missing"}, 0, 1)
        ELSE /\ Len(mainQueue) < MaxQueue
             /\ mainQueue' = Append(mainQueue, Block("select", <<>>, Nil, TRUE, id, NoBadge, 1))
             /\ lastOp' = Op("select", id, {}, 1, 0)
    /\ nCalls' = nCalls + 1
    /\ UNCHANGED <<variant, hostVC, overlayVars, events>>
    /\ TabFrame

(* TabsBarPlugin.setBadge *)
setBadge ==
    /\ CanCall
    /\ \E id \in CallIds, value \in JSBadgeValues :
        IF id = Nil
        THEN /\ value = JSNull
             /\ mainQueue' = mainQueue
             /\ lastOp' = Op("setBadge", id, {"missing"}, 0, 1)
        ELSE /\ Len(mainQueue) < MaxQueue
             /\ mainQueue' = Append(mainQueue,
                    Block("setBadge", <<>>, Nil, TRUE, id, SetBadgeValue(value), 1))
             /\ lastOp' = Op("setBadge", id, {}, 1, 0)
    /\ nCalls' = nCalls + 1
    /\ UNCHANGED <<variant, hostVC, overlayVars, events>>
    /\ TabFrame

(* --- blocks run on the main queue ---------------------------------- *)
(* a main queue that would run the block handed to it last *)
Head1_Newest == mainQueue[Len(mainQueue)]

(* the block the main queue runs next: the one handed to it first *)
Head1 == mainQueue[1]

CanRun(op) == ~crashed /\ Len(mainQueue) > 0 /\ Head1.op = op

(* TabsBarOverlay.update of the UIKit overlay: the selection it installs *)
UpdateSelectedIdx(its, initialId) ==
    IF initialId # Nil /\ idToIndex(its, initialId) # 0
    THEN idToIndex(its, initialId)
    ELSE IF Len(its) > 0 THEN 1 ELSE 0

(* the block of configure: ensureOverlay, then overlay.update(...) *)
RunUpdate ==
    /\ CanRun("update")
    /\ mainQueue' = Tail(mainQueue)
    /\ IF ~overlayVC /\ ~hostVC
       THEN \* ensureOverlay found no host view controller: "Failed to initialize overlay"
            /\ lastOp' = Op("update", Nil, {"noOverlay"}, Head1.resolves, 1)
            /\ UNCHANGED overlayVars
       ELSE /\ overlayVC' = TRUE
            /\ items' = Head1.items
            /\ lastOp' = Op("update", Head1.initialId,
                            IF Head1.initialId \in IdsOf(Head1.items) THEN {"known"} ELSE {},
                            Head1.resolves, 0)
            /\ IF variant = "uikit"
               THEN IF HasDuplicateIds(Head1.items)
                    THEN \* Dictionary(uniqueKeysWithValues:) traps on a duplicate key
                         /\ crashed' = TRUE
                         /\ UNCHANGED <<barBadges, selectedIdx, hidden>>
                    ELSE /\ barBadges' = [i \in DOMAIN Head1.items |->
                                              applyBadge(Head1.items[i].badge)]
                         /\ selectedIdx' = UpdateSelectedIdx(Head1.items, Head1.initialId)
                         /\ hidden' = ~Head1.visible
                         /\ crashed' = crashed
               ELSE /\ UNCHANGED <<barBadges, selectedIdx, crashed>>
                    /\ hidden' = ~Head1.visible
            /\ IF variant = "swiftui"
               THEN /\ currentInitialId' = Head1.initialId
                    /\ hostingController' = TRUE
               ELSE UNCHANGED <<currentInitialId, hostingController>>
            /\ UNCHANGED <<mounted, viewSelectedId>>
    /\ UNCHANGED <<variant, hostVC, nCalls, events>>
    /\ TabFrame

(* an assignment to overlay.view.isHidden that would not take *)
setIsHidden_Ignored(value) == hidden

(* overlay.view.isHidden = value *)
setIsHidden(value) == value

(* the blocks of show and hide *)
RunShow ==
    /\ CanRun("show")
    /\ mainQueue' = Tail(mainQueue)
    /\ IF overlayVC
       THEN /\ hidden' = setIsHidden(FALSE)
            /\ lastOp' = Op("applyShow", Nil, {}, Head1.resolves, 0)
       ELSE /\ hidden' = hidden
            /\ lastOp' = Op("applyShow", Nil, {"noOverlay"}, Head1.resolves, 1)
    /\ UNCHANGED <<variant, hostVC, overlayVC, items, barBadges, selectedIdx, currentInitialId,
                   hostingController, mounted, viewSelectedId, crashed, nCalls, events>>
    /\ TabFrame

RunHide ==
    /\ CanRun("hide")
    /\ mainQueue' = Tail(mainQueue)
    /\ IF overlayVC
       THEN /\ hidden' = setIsHidden(TRUE)
            /\ lastOp' = Op("applyHide", Nil, {}, Head1.resolves, 0)
       ELSE /\ hidden' = hidden
            /\ lastOp' = Op("applyHide", Nil, {"noOverlay"}, Head1.resolves, 1)
    /\ UNCHANGED <<variant, hostVC, overlayVC, items, barBadges, selectedIdx, currentInitialId,
                   hostingController, mounted, viewSelectedId, crashed, nCalls, events>>
    /\ TabFrame

IdFlags(id) == IF id \in IdsOf(items) THEN {"known"} ELSE {}

(* TabsBarOverlay.select of the UIKit overlay: the new tabBar.selectedItem *)
SelectUIKit(id) ==
    IF idToIndex(items, id) # 0 /\ idToIndex(items, id) <= Len(barBadges)
    THEN idToIndex(items, id)
    ELSE selectedIdx

(* TabsBarOverlay.select of the SwiftUI overlay: the new currentInitialId *)
SelectSwiftUI(id) == id

(* the block of select: overlay.select(id:) *)
RunSelect ==
    /\ CanRun("select")
    /\ mainQueue' = Tail(mainQueue)
    /\ IF overlayVC
       THEN /\ lastOp' = Op("applySelect", Head1.id, IdFlags(Head1.id), Head1.resolves, 0)
            /\ IF variant = "uikit"
               THEN /\ selectedIdx' = SelectUIKit(Head1.id)
                    /\ UNCHANGED currentInitialId
               ELSE /\ currentInitialId' = SelectSwiftUI(Head1.id)
                    /\ UNCHANGED selectedIdx
       ELSE /\ lastOp' = Op("applySelect", Head1.id, {"noOverlay"}, Head1.resolves, 1)
            /\ UNCHANGED <<selectedIdx, currentInitialId>>
    /\ UNCHANGED <<variant, hostVC, overlayVC, items, barBadges, hostingController, mounted,
                   viewSelectedId, hidden, crashed, nCalls, events>>
    /\ TabFrame

(* a setBadge that would restyle every tab of the bar *)
SetBadgeUIKit_AllTabs(id, value) == [i \in DOMAIN barBadges |-> applyBadge(value)]

(* TabsBarOverlay.setBadge of the UIKit overlay: the new badge values of the bar *)
SetBadgeUIKit(id, value) ==
    IF idToIndex(items, id) # 0 /\ idToIndex(items, id) <= Len(barBadges)
    THEN [barBadges EXCEPT ![idToIndex(items, id)] = applyBadge(value)]
    ELSE barBadges

(* TabsBarOverlay.setBadge of the SwiftUI overlay: the new currentItems *)
SetBadgeSwiftUI(id, value) ==
    IF firstIndex(items, id) # 0
    THEN [items EXCEPT ![firstIndex(items, id)].badge = value]
    ELSE items

(* the block of setBadge: overlay.setBadge(id:value:) *)
RunSetBadge ==
    /\ CanRun("setBadge")
    /\ mainQueue' = Tail(mainQueue)
    /\ IF overlayVC
       THEN /\ lastOp' = Op("applySetBadge", Head1.id, IdFlags(Head1.id), Head1.resolves, 0)
            /\ IF variant = "uikit"
               THEN /\ barBadges' = SetBadgeUIKit(Head1.id, Head1.value)
                    /\ UNCHANGED items
               ELSE /\ items' = SetBadgeSwiftUI(Head1.id, Head1.value)
                    /\ UNCHANGED barBadges
       ELSE /\ lastOp' = Op("applySetBadge", Head1.id, {"noOverlay"}, Head1.resolves, 1)
            /\ UNCHANGED <<items, barBadges>>
    /\ UNCHANGED <<variant, hostVC, overlayVC, selectedIdx, currentInitialId, hostingController,
                   mounted, viewSelectedId, hidden, crashed, nCalls, events>>
    /\ TabFrame

(* SwiftUI renders the hosted TabsBarView for the first time: the @State    *)
(* storage of selectedId is created from the initial value of the root      *)
(* view installed at that moment; later root views of the same type keep it *)
Render ==
    /\ ~crashed
    /\ variant = "swiftui"
    /\ hostingController
    /\ ~mounted
    /\ mounted' = TRUE
    /\ viewSelectedId' = TabsBarViewInit(items, currentInitialId)
    /\ lastOp' = Op("render", Nil, {}, 0, 0)
    /\ UNCHANGED <<variant, hostVC, overlayVC, items, barBadges, selectedIdx, currentInitialId,
                   hostingController, hidden, crashed, mainQueue, nCalls, events>>
    /\ TabFrame

(* overlay.onSelected as installed by ensureOverlay: it notifies the        *)
(* "selected" listeners of the host with the id                            *)
onSelected_Silent(evs, id) == evs

onSelected(evs, id) == Append(evs, id)

(* the user taps the i-th tab: tabBar(_:didSelect:) of the UIKit overlay,   *)
(* the Button action of TabsBarView in the SwiftUI overlay                  *)
Tap ==
    /\ ~crashed
    /\ Visible
    /\ Len(events) < MaxEvents
    /\ variant = "swiftui" => mounted
    /\ \E i \in DOMAIN items :
        /\ events' = onSelected(events, items[i].id)
        /\ lastOp' = Op("tap", items[i].id, {}, 0, 0)
        /\ IF variant = "uikit"
           THEN /\ selectedIdx' = i
                /\ UNCHANGED viewSelectedId
           ELSE /\ viewSelectedId' = items[i].id
                /\ UNCHANGED selectedIdx
    /\ UNCHANGED <<variant, hostVC, overlayVC, items, barBadges, currentInitialId,
                   hostingController, mounted, hidden, crashed, mainQueue, nCalls>>
    /\ TabFrame

Next ==
    \/ configure
    \/ show
    \/ hide
    \/ select
    \/ setBadge
    \/ RunUpdate
    \/ RunShow
    \/ RunHide
    \/ RunSelect
    \/ RunSetBadge
    \/ Render
    \/ Tap

(* ================================================================== *)
(* Part II - image sources and their classification                    *)
(* ================================================================== *)

(* A source is a sequence of characters. *)
W_https == <<"h", "t", "t", "p", "s">>
W_http == <<"h", "t", "t", "p">>
W_HTTPS == <<"H", "T", "T", "P", "S">>
W_Http == <<"H", "t", "t", "p">>
W_ftp == <<"f", "t", "p">>
W_data == <<"d", "a", "t", "a">>
W_DATA == <<"D", "A", "T", "A">>
W_image == <<"i", "m", "a", "g", "e", "/">>
W_IMAGE == <<"I", "M", "A", "G", "E", "/">>
W_png == <<"p", "n", "g">>
W_PNG == <<"P", "N", "G">>
W_jpeg == <<"j", "p", "e", "g">>
W_jpg == <<"j", "p", "g">>
W_svgxml == <<"s", "v", "g", "+", "x", "m", "l">>
W_webp == <<"w", "e", "b", "p">>
W_bmp == <<"b", "m", "p">>
W_gif == <<"g", "i", "f">>
W_base64c == <<";", "b", "a", "s", "e", "6", "4", ",">>
W_BASE64c == <<";", "B", "A", "S", "E", "6", "4", ",">>
W_base64 == <<";", "b", "a", "s", "e", "6", "4">>
W_comma == <<",">>
W_colon == <<":">>
W_slashes == <<":", "/", "/">>
W_none == <<>>
W_hostA == <<"x", "/", "a">>
W_hostB == <<"x", "/", "b">>
W_payload == <<"A", "A", "A", "A">>

UpperCase == {"A", "B", "C", "D", "E", "F", "G", "H", "I", "J", "K", "L", "M",
              "N", "O", "P", "Q", "R", "S", "T", "U", "V", "W", "X", "Y", "Z"}
LowerCase == {"a", "b", "c", "d", "e", "f", "g", "h", "i", "j", "k", "l", "m",
              "n", "o", "p", "q", "r", "s", "t", "u", "v", "w", "x", "y", "z"}
Digits == {"0", "1", "2", "3", "4", "5", "6", "7", "8", "9"}

(* String.lowercased() / toLowerCase() on one character *)
ToLowerChar(c) ==
    CASE c = "A" -> "a" [] c = "B" -> "b" [] c = "C" -> "c" [] c = "D" -> "d"
      [] c = "E" -> "e" [] c = "F" -> "f" [] c = "G" -> "g" [] c = "H" -> "h"
      [] c = "I" -> "i" [] c = "J" -> "j" [] c = "K" -> "k" [] c = "L" -> "l"
      [] c = "M" -> "m" [] c = "N" -> "n" [] c = "O" -> "o" [] c = "P" -> "p"
      [] c = "Q" -> "q" [] c = "R" -> "r" [] c = "S" -> "s" [] c = "T" -> "t"
      [] c = "U" -> "u" [] c = "V" -> "v" [] c = "W" -> "w" [] c = "X" -> "x"
      [] c = "Y" -> "y" [] c = "Z" -> "z" [] OTHER -> c

ToLower(str) == [i \in DOMAIN str |-> ToLowerChar(str[i])]

StartsWith(str, prefix) ==
    /\ Len(str) >= Len(prefix)
    /\ \A i \in DOMAIN prefix : str[i] = prefix[i]

(* the alternation (png|jpeg|jpg|svg\+xml|webp) of the data-URI pattern *)
Base64Formats == {W_png, W_jpeg, W_jpg, W_svgxml, W_webp}

(* /^data:image\/(png|jpeg|jpg|svg\+xml|webp);base64,/i, anchored at the start *)
isValidBase64DataUri(dataUri) ==
    \E fmt \in Base64Formats :
        StartsWith(ToLower(dataUri), W_data \o W_colon \o W_image \o fmt \o W_base64c)

(* position of the first ":" of a string, 0 when it has none *)
ColonAt(str) ==
    IF \E i \in DOMAIN str : str[i] = ":"
    THEN CHOOSE i \in DOMAIN str : str[i] = ":" /\ \A j \in 1..(i-1) : str[j] # ":"
    ELSE 0

(* the scheme a URL parser reads off a string: an ASCII letter followed by  *)
(* letters, digits, "+", "-" or ".", up to the first ":"; Nil when absent   *)
SchemeOf(str) ==
    IF /\ ColonAt(str) > 1
       /\ str[1] \in UpperCase \cup LowerCase
       /\ \A j \in 2..(ColonAt(str)-1) :
              str[j] \in UpperCase \cup LowerCase \cup Digits \cup {"+", "-", "."}
    THEN SubSeq(str, 1, ColonAt(str) - 1)
    ELSE <<>>

(* what follows "scheme:" with the leading slashes dropped *)
AfterScheme(str) ==
    LET rest == SubSeq(str, ColonAt(str) + 1, Len(str))
        RECURSIVE Strip(_)
        Strip(r) == IF Len(r) > 0 /\ r[1] = "/" THEN Strip(Tail(r)) ELSE r
    IN Strip(rest)

(* ImageValidator.isValidHttpUrl (web): new URL(url) throws without a       *)
(* scheme and, for http and https, without a host; it lower-cases protocol  *)
isValidHttpUrlWeb(url) ==
    /\ SchemeOf(url) # <<>>
    /\ ToLower(SchemeOf(url)) \in {W_http, W_https}
    /\ Len(AfterScheme(url)) > 0

(* ImageUtils.isValidHttpUrl (Swift): URL(string:) is nil for an empty      *)
(* string; url.scheme is compared as written                                *)
isValidHttpUrl(urlString) ==
    /\ Len(urlString) > 0
    /\ SchemeOf(urlString) \in {W_http, W_https}

(* ImageManager.loadImage: which branch a source takes *)
ClassifyWeb(image) ==
    IF isValidBase64DataUri(image) THEN "base64"
    ELSE IF isValidHttpUrlWeb(image) THEN "remote"
    ELSE "invalid"

(* ImageUtils.processImageIcon: which branch a source takes *)
ClassifyNative(imageSource) ==
    IF isValidBase64DataUri(imageSource) THEN "base64"
    ELSE IF isValidHttpUrl(imageSource) THEN "remote"
    ELSE "invalid"

(* --- the sources tried -------------------------------------------- *)
UrlSources ==
    {scheme \o sep \o rest :
        scheme \in {W_https, W_http, W_HTTPS, W_Http, W_ftp, W_none},
        sep \in {W_slashes, W_colon, W_none},
        rest \in {W_hostA, W_hostB, W_none}}

DataUriSources ==
    {d \o W_colon \o img \o fmt \o tail :
        d \in {W_data, W_DATA},
        img \in {W_image, W_IMAGE},
        fmt \in {W_png, W_PNG, W_jpeg, W_jpg, W_svgxml, W_webp, W_bmp, W_gif},
        tail \in {W_base64c \o W_payload, W_BASE64c \o W_payload, W_base64, W_comma \o W_payload}}

Sources == UrlSources \cup DataUriSources

ClassifyInit ==
    /\ source \in Sources
    /\ webClass = "none"
    /\ nativeClass = "none"

(* the dispatch at the head of ImageManager.loadImage *)
LoadImageClassify ==
    /\ webClass = "none"
    /\ webClass' = ClassifyWeb(source)
    /\ UNCHANGED <<source, nativeClass>>
    /\ ClassifyFrame

(* the dispatch at the head of ImageUtils.processImageIcon *)
ProcessImageIconClassify ==
    /\ nativeClass = "none"
    /\ nativeClass' = ClassifyNative(source)
    /\ UNCHANGED <<source, webClass>>
    /\ ClassifyFrame

(* ================================================================== *)
(* Part III - the Swift loader: ImageUtils                             *)
(* ================================================================== *)
MaxRequests == 3
MaxClears == 1

Url_A == W_https \o W_slashes \o W_hostA
Url_B == W_https \o W_slashes \o W_hostB
Url_Http == W_http \o W_slashes \o W_hostA
Src_Png == W_data \o W_colon \o W_image \o W_png \o W_base64c \o W_payload
Src_Bmp == W_data \o W_colon \o W_image \o W_bmp \o W_base64c \o W_payload

(* the sources requests are made for *)
RequestSources == {Url_A, Url_B, Url_Http, Src_Png, Src_Bmp}

(* what the URLSession completion handler is called with *)
NetOutcomes == {"ok", "failed", "badType", "tooLarge", "undecodable"}

(* a call of processImageIcon:                                              *)
(*   st        "poll"  waiting for the asyncAfter retry                     *)
(*             "fetch" its own data task is running                         *)
(*             "main"  its completion is queued on the main queue           *)
(*             "done"  its completion handler has run                       *)
(*   task      the data task it started, 0 when none                        *)
(*   joined    the data task in flight for its source when it arrived       *)
(*   from      the data task whose image it was given, 0 when nil or base64 *)
Request(src, st, task, joined, result, from, completions) ==
    [src |-> src, st |-> st, task |-> task, joined |-> joined, result |-> result,
     from |-> from, completions |-> completions]

(* a data task: st "net" while the request is on the network, "defer" when  *)
(* the completion handler has run up to its defer block, "done" after it    *)
Task(url, st, result) == [url |-> url, st |-> st, result |-> result]

InFlight(ts, url) == {f \in DOMAIN ts : ts[f].url = url /\ ts[f].st = "net"}

AnInFlight(ts, url) == IF InFlight(ts, url) = {} THEN 0 ELSE CHOOSE f \in InFlight(ts, url) : TRUE

NativeInit ==
    /\ imageCache = [u \in RequestSources |-> 0]
    /\ loadingStates = [u \in RequestSources |-> "absent"]
    /\ requests = <<>>
    /\ tasks = <<>>
    /\ clears = 0
    /\ trapped = FALSE
    /\ lastLoad = "init"

(* ImageUtils.loadImageFromUrl for request r, whose record so far is req:   *)
(* the request's new record *)
LoadFromUrlRequest(req) ==
    IF imageCache[req.src] # 0
    THEN [req EXCEPT !.st = "done", !.result = "image", !.from = imageCache[req.src],
                     !.completions = @ + 1]
    ELSE IF loadingStates[req.src] = "true"
    THEN [req EXCEPT !.st = "poll"]
    ELSE [req EXCEPT !.st = "fetch", !.task = Len(tasks) + 1]

(* ImageUtils.loadImageFromUrl: the loading flags it leaves *)
LoadFromUrlStates(url) ==
    IF imageCache[url] = 0 /\ loadingStates[url] # "true"
    THEN [loadingStates EXCEPT ![url] = "true"]
    ELSE loadingStates

(* ImageUtils.loadImageFromUrl: the data tasks after task.resume() *)
LoadFromUrlTasks(url) ==
    IF imageCache[url] = 0 /\ loadingStates[url] # "true"
    THEN Append(tasks, Task(url, "net", "none"))
    ELSE tasks

(* ImageUtils.processImageIcon *)
processImageIcon ==
    /\ ~trapped
    /\ Len(requests) < MaxRequests
    /\ \E src \in RequestSources, decodes \in BOOLEAN :
        LET new == Request(src, "new", 0, AnInFlight(tasks, src), "none", 0, 0) IN
        CASE ClassifyNative(src) = "base64" ->
                \* loadImageFromBase64, applyImageIconStyling, completion(processedImage)
                /\ requests' = Append(requests,
                       [new EXCEPT !.st = "done", !.completions = 1,
                                   !.result = IF decodes THEN "image" ELSE "nil"])
                /\ UNCHANGED <<loadingStates, tasks>>
          [] ClassifyNative(src) = "remote" ->
                /\ decodes
                /\ requests' = Append(requests, LoadFromUrlRequest(new))
                /\ loadingStates' = LoadFromUrlStates(src)
                /\ tasks' = LoadFromUrlTasks(src)
          [] OTHER ->
                \* "Invalid image source": completion(nil)
                /\ decodes
                /\ requests' = Append(requests,
                       [new EXCEPT !.st = "done", !.completions = 1, !.result = "nil"])
                /\ UNCHANGED <<loadingStates, tasks>>
    /\ lastLoad' = "processImageIcon"
    /\ UNCHANGED <<imageCache, clears, trapped>>
    /\ NativeFrame

(* the asyncAfter block of loadImageFromUrl: the poll of a waiting request *)
PollRetry ==
    /\ ~trapped
    /\ \E r \in DOMAIN requests :
        /\ requests[r].st = "poll"
        /\ requests' = [requests EXCEPT ![r] = LoadFromUrlRequest(requests[r])]
        /\ loadingStates' = LoadFromUrlStates(requests[r].src)
        /\ tasks' = LoadFromUrlTasks(requests[r].src)
    /\ lastLoad' = "PollRetry"
    /\ UNCHANGED <<imageCache, clears, trapped>>
    /\ NativeFrame

Owner(f) == CHOOSE r \in DOMAIN requests : requests[r].task = f

(* the data task's completion handler, up to its defer: it validates the     *)
(* response, caches a decoded image and queues the completion on main       *)
TaskHandler ==
    /\ ~trapped
    /\ \E f \in DOMAIN tasks, outcome \in NetOutcomes :
        /\ tasks[f].st = "net"
        /\ tasks' = [tasks EXCEPT ![f] =
               Task(tasks[f].url, "defer", IF outcome = "ok" THEN "image" ELSE "nil")]
        /\ imageCache' = IF outcome = "ok"
                         THEN [imageCache EXCEPT ![tasks[f].url] = f]
                         ELSE imageCache
        /\ requests' = [requests EXCEPT ![Owner(f)] =
               [@ EXCEPT !.st = "main",
                         !.result = IF outcome = "ok" THEN "image" ELSE "nil",
                         !.from = IF outcome = "ok" THEN f ELSE 0]]
    /\ lastLoad' = "TaskHandler"
    /\ UNCHANGED <<loadingStates, clears, trapped>>
    /\ NativeFrame

(* the defer block of the completion handler: loadingStates[urlString] = false *)
TaskDefer ==
    /\ ~trapped
    /\ \E f \in DOMAIN tasks :
        /\ tasks[f].st = "defer"
        /\ tasks' = [tasks EXCEPT ![f].st = "done"]
        /\ loadingStates' = [loadingStates EXCEPT ![tasks[f].url] = "false"]
    /\ lastLoad' = "TaskDefer"
    /\ UNCHANGED <<imageCache, requests, clears, trapped>>
    /\ NativeFrame

(* the completion block queued on the main queue runs *)
MainCompletion ==
    /\ ~trapped
    /\ \E r \in DOMAIN requests :
        /\ requests[r].st = "main"
        /\ requests' = [requests EXCEPT ![r].st = "done", ![r].completions = @ + 1]
    /\ lastLoad' = "MainCompletion"
    /\ UNCHANGED <<imageCache, loadingStates, tasks, clears, trapped>>
    /\ NativeFrame

(* ImageUtils.clearCache *)
clearCache ==
    /\ ~trapped
    /\ clears < MaxClears
    /\ clears' = clears + 1
    /\ imageCache' = [u \in RequestSources |-> 0]
    /\ loadingStates' = [u \in RequestSources |-> "absent"]
    /\ lastLoad' = "clearCache"
    /\ UNCHANGED <<requests, tasks, trapped>>
    /\ NativeFrame

(* imageCache and loadingStates are unsynchronised statics written by the    *)
(* completion handler on URLSession's queue and read on the main queue: a   *)
(* poll that overlaps the handler's writes may trap                         *)
RaceTrap ==
    /\ ~trapped
    /\ \E f \in DOMAIN tasks : tasks[f].st = "defer"
    /\ \E r \in DOMAIN requests : requests[r].st = "poll"
    /\ trapped' = TRUE
    /\ lastLoad' = "RaceTrap"
    /\ UNCHANGED <<imageCache, loadingStates, requests, tasks, clears>>
    /\ NativeFrame

NativeNext ==
    \/ processImageIcon
    \/ PollRetry
    \/ TaskHandler
    \/ TaskDefer
    \/ MainCompletion
    \/ clearCache
    \/ RaceTrap

(* ================================================================== *)
(* Part IV - the web loader: ImageManager and TabsBarWeb                *)
(* ================================================================== *)
MaxConfigures == 2

NoIcon == <<>>

WebSources == {Url_A, Url_B, Url_Http, Src_Png, Src_Bmp}

(* tab ids of web configurations *)
WebIds == {"a", "b", ""}

(* the items of a web configure call: [id, image], image = NoIcon for an    *)
(* item without imageIcon                                                   *)
WebImageLists == UNION {[1..k -> WebSources \cup {NoIcon}] : k \in 1..MaxItems}

WebItemLists ==
    {<<>>, <<[id |-> "", image |-> NoIcon]>>}
    \cup {[i \in DOMAIN p[1] |-> [id |-> p[1][i], image |-> p[2][i]]] :
            p \in {q \in {x \in IdLists : Len(x) > 0 /\ "" \notin Range(x)} \X WebImageLists :
                     Len(q[1]) = Len(q[2])}}

(* a load promise of preloadItemImage:                                      *)
(*   st     "ready" settled by the end of the call that made it, "await"    *)
(*          waiting for a fetch, "done" its then/catch/finally have run     *)
(*   fetch  the fetch it waits for, 0 when none;  owner: it started it      *)
(*   joined the fetch in flight for its url when it was made                *)
Load(id, image, st, fetch, owner, joined, result, from) ==
    [id |-> id, image |-> image, st |-> st, fetch |-> fetch, owner |-> owner,
     joined |-> joined, result |-> result, from |-> from]

Fetch(url, st) == [url |-> url, st |-> st]

FetchOutcomes == {"ok", "httpError", "badType", "tooLarge", "networkError"}

(* the state the synchronous part of a call works on *)
WebState == [cache |-> cache, lp |-> loadingPromises, fetches |-> fetches,
             loads |-> loads, tabs |-> tabStates, ilp |-> imageLoadPromises,
             awaits |-> {}]

FetchesInFlight(fs, url) == {f \in DOMAIN fs : fs[f].url = url /\ fs[f].st = "net"}

JoinedFetch(fs, url) ==
    IF FetchesInFlight(fs, url) = {} THEN 0 ELSE CHOOSE f \in FetchesInFlight(fs, url) : TRUE

(* ImageManager.loadRemoteImage up to its first await: the load it yields *)
loadRemoteImage(ws, id, url) ==
    IF ws.lp[url] # 0
    THEN Load(id, url, "await", ws.lp[url], FALSE, JoinedFetch(ws.fetches, url), "none", 0)
    ELSE IF ws.cache[url] # 0
    THEN Load(id, url, "ready", 0, FALSE, JoinedFetch(ws.fetches, url), "ok", ws.cache[url])
    ELSE Load(id, url, "await", Len(ws.fetches) + 1, TRUE, JoinedFetch(ws.fetches, url),
              "none", 0)

(* ImageManager.loadImage up to its first await: the load it yields *)
WebClassOf == [image \in WebSources |-> ClassifyWeb(image)]

loadImage(ws, id, image) ==
    CASE WebClassOf[image] = "base64" -> Load(id, image, "ready", 0, FALSE, 0, "ok", 0)
      [] WebClassOf[image] = "remote" -> loadRemoteImage(ws, id, image)
      [] OTHER -> Load(id, image, "ready", 0, FALSE, 0, "error", 0)

(* TabsBarWeb.preloadItemImage up to its return *)
preloadItemImage(ws, item) ==
    IF item.image = NoIcon THEN ws
    ELSE IF ws.ilp[item.id] # 0
    THEN [ws EXCEPT !.awaits = @ \cup {ws.ilp[item.id]}]
    ELSE LET new == loadImage(ws, item.id, item.image) IN
         [ws EXCEPT
            !.tabs = [@ EXCEPT ![item.id] = "loading"],
            !.loads = Append(@, new),
            !.ilp = [@ EXCEPT ![item.id] = Len(ws.loads) + 1],
            !.awaits = @ \cup {Len(ws.loads) + 1},
            !.fetches = IF new.owner THEN Append(@, Fetch(item.image, "net")) ELSE @,
            !.lp = IF new.owner THEN [@ EXCEPT ![item.image] = Len(ws.fetches) + 1] ELSE @]

(* TabsBarWeb.validateAndPreloadImages: items.filter(...).map(preloadItemImage) *)
RECURSIVE validateAndPreloadImages(_, _)
validateAndPreloadImages(ws, its) ==
    IF its = <<>> THEN ws
    ELSE validateAndPreloadImages(preloadItemImage(ws, Head(its)), Tail(its))

(* then and catch alone: the finally that drops the tab's entry of        *)
(* imageLoadPromises left out                                               *)
RECURSIVE RunCallbacks_NoFinally(_, _)
RunCallbacks_NoFinally(ws, settled) ==
    IF settled = {} THEN ws
    ELSE LET l == CHOOSE x \in settled : \A y \in settled : x <= y IN
         RunCallbacks_NoFinally(
            [ws EXCEPT
                !.tabs = [@ EXCEPT ![ws.loads[l].id] =
                              IF ws.loads[l].result = "ok" THEN "loaded" ELSE "error"],
                !.loads = [@ EXCEPT ![l].st = "done"]],
            settled \ {l})

(* the then / catch / finally callbacks of the loads in `settled` *)
RECURSIVE RunCallbacks(_, _)
RunCallbacks(ws, settled) ==
    IF settled = {} THEN ws
    ELSE LET l == CHOOSE x \in settled : \A y \in settled : x <= y IN
         RunCallbacks(
            [ws EXCEPT
                !.tabs = [@ EXCEPT ![ws.loads[l].id] =
                              IF ws.loads[l].result = "ok" THEN "loaded" ELSE "error"],
                !.ilp = [@ EXCEPT ![ws.loads[l].id] = 0],
                !.loads = [@ EXCEPT ![l].st = "done"]],
            settled \ {l})

(* as if the callbacks of an already settled promise were never run *)
ReadyLoads_None(ws) == {}

ReadyLoads(ws) == {l \in DOMAIN ws.loads : ws.loads[l].st = "ready"}

(* Promise.all in the place of Promise.allSettled: a failed load rejects *)
ResolveConfigures_FailFast(cfgs, ls) ==
    [c \in DOMAIN cfgs |->
        IF cfgs[c].st = "pending" /\ \E l \in cfgs[c].awaits : ls[l].st = "done" /\ ls[l].result # "ok"
        THEN [cfgs[c] EXCEPT !.st = "rejected"]
        ELSE IF cfgs[c].st = "pending" /\ \A l \in cfgs[c].awaits : ls[l].st = "done"
        THEN [cfgs[c] EXCEPT !.st = "resolved"]
        ELSE cfgs[c]]

(* Promise.allSettled of the configure calls still waiting *)
ResolveConfigures(cfgs, ls) ==
    [c \in DOMAIN cfgs |->
        IF cfgs[c].st = "pending" /\ \A l \in cfgs[c].awaits : ls[l].st = "done"
        THEN [cfgs[c] EXCEPT !.st = "resolved"]
        ELSE cfgs[c]]

WebInit ==
    /\ cache = [u \in WebSources |-> 0]
    /\ loadingPromises = [u \in WebSources |-> 0]
    /\ fetches = <<>>
    /\ loads = <<>>
    /\ tabStates = [t \in WebIds |-> "none"]
    /\ imageLoadPromises = [t \in WebIds |-> 0]
    /\ configures = <<>>
    /\ webClears = 0
    /\ lastWeb = "init"

(* TabsBarWeb.configure: its synchronous part and the callbacks of the loads *)
(* that are settled when it returns to the event loop                       *)
webConfigure ==
    /\ Len(configures) < MaxConfigures
    /\ \E its \in WebItemLists :
        LET ws1 == validateAndPreloadImages(WebState, its)
            ws2 == RunCallbacks(ws1, ReadyLoads(ws1))
        IN /\ cache' = ws2.cache
           /\ loadingPromises' = ws2.lp
           /\ fetches' = ws2.fetches
           /\ loads' = ws2.loads
           /\ tabStates' = ws2.tabs
           /\ imageLoadPromises' = ws2.ilp
           /\ configures' = ResolveConfigures(
                  Append(configures, [items |-> its, awaits |-> ws1.awaits, st |-> "pending"]),
                  ws2.loads)
    /\ lastWeb' = "configure"
    /\ UNCHANGED webClears
    /\ WebFrame

(* every load that has not settled, as if all of them hung on one promise *)
WaitingFor_AnyFetch(f) == {l \in DOMAIN loads : loads[l].st = "await"}

(* the loads awaiting the promise of fetch f *)
WaitingFor(f) == {l \in DOMAIN loads : loads[l].st = "await" /\ loads[l].fetch = f}

(* fetchAndCacheImage settles, and with it loadRemoteImage's continuation   *)
(* and the callbacks of every load waiting for it                           *)
fetchAndCacheImage ==
    /\ \E f \in DOMAIN fetches, outcome \in FetchOutcomes :
        /\ fetches[f].st = "net"
        /\ LET url == fetches[f].url
               ok == outcome = "ok"
               waiting == WaitingFor(f)
               ws0 == [WebState EXCEPT
                         !.fetches = [@ EXCEPT ![f].st = IF ok THEN "ok" ELSE "failed"],
                         !.cache = IF ok THEN [@ EXCEPT ![url] = f] ELSE @,
                         !.lp = [@ EXCEPT ![url] = 0],
                         !.loads = [l \in DOMAIN loads |->
                                      IF l \in waiting
                                      THEN [loads[l] EXCEPT
                                              !.result = IF ok THEN "ok" ELSE "error",
                                              !.from = IF ok THEN f ELSE 0]
                                      ELSE loads[l]]]
               ws1 == RunCallbacks(ws0, waiting)
           IN /\ cache' = ws1.cache
              /\ loadingPromises' = ws1.lp
              /\ fetches' = ws1.fetches
              /\ loads' = ws1.loads
              /\ tabStates' = ws1.tabs
              /\ imageLoadPromises' = ws1.ilp
              /\ configures' = ResolveConfigures(configures, ws1.loads)
    /\ lastWeb' = "fetchAndCacheImage"
    /\ UNCHANGED webClears
    /\ WebFrame

(* TabsBarWeb.clearImageCache, with ImageManager.clearCache *)
clearImageCache ==
    /\ webClears < MaxClears
    /\ webClears' = webClears + 1
    /\ cache' = [u \in WebSources |-> 0]
    /\ loadingPromises' = [u \in WebSources |-> 0]
    /\ tabStates' = [t \in WebIds |-> "none"]
    /\ imageLoadPromises' = [t \in WebIds |-> 0]
    /\ lastWeb' = "clearImageCache"
    /\ UNCHANGED <<fetches, loads, configures>>
    /\ WebFrame

WebNext ==
    \/ webConfigure
    \/ fetchAndCacheImage
    \/ clearImageCache


(* ================================================================== *)
(* Part V - the icon of one tab: TabIconView (SwiftUI) and             *)
(*          loadImageForItem (UIKit)                                   *)
(* ================================================================== *)

MaxLoads == 3
MaxToggles == 2

(* a UIImage as far as its look goes: what it shows, the colour of its ring *)
(* and its renderingMode, .automatic unless set                              *)
Img(kind, name, ring) == [kind |-> kind, name |-> name, ring |-> ring, mode |-> "automatic"]

(* image.withRenderingMode(.alwaysOriginal) *)
withRenderingMode(image) == [image EXCEPT !.mode = "alwaysOriginal"]

(* ImageUtils.addEnhancedRingToImage / addRingToImage: the image with a ring *)
addEnhancedRingToImage(image, ringColor) ==
    withRenderingMode([image EXCEPT !.ring = ringColor])
NoImage == Img("nil", "", "none")
Bitmap(ring) == Img("bitmap", "", ring)
SystemImage(name) == Img("symbol", name, "none")
AssetImage(name) == Img("asset", name, "none")
EmptyImage == Img("empty", "", "none")

(* the image sources of one imageIcon, by what processImageIcon makes of them *)
IconSources == {"none", "base64", "undecodable", "remote", "invalid"}

(* the items a host configures: ring only with an imageIcon *)
IconItems ==
    {it \in [imageIcon : IconSources, ring : BOOLEAN,
             systemIcon : {Nil, "star"}, image : {Nil, "logo"}] :
        it.imageIcon = "none" => ~it.ring}

IconColors == [selected : {Nil, "red"}, unselected : {Nil, "grey"}]

(* TabsBarPlugin.configure of the SwiftUI build: systemIcon is never nil *)
DefaultSystemIcon(js) == IF js = Nil THEN "questionmark.circle" ELSE js

(* the item as the overlay holds it *)
OverlaySystemIcon ==
    IF iconVariant = "swiftui" THEN DefaultSystemIcon(iconItem.systemIcon)
    ELSE iconItem.systemIcon

(* a block handed to DispatchQueue.main.async *)
IconBlock(hop, sel, image) == [hop |-> hop, sel |-> sel, image |-> image]

IconInit ==
    /\ iconVariant \in {"uikit", "swiftui"}
    /\ iconItem \in IconItems
    /\ iconColors \in IconColors
    /\ isSelected \in BOOLEAN
    /\ appeared = FALSE
    /\ iconFetch = "idle"
    /\ iconOwner = <<>>
    /\ iconPollers = <<>>
    /\ iconQueue = <<>>
    /\ iconImage = NoImage
    /\ selectedImage = NoImage
    /\ nLoads = 0
    /\ nToggles = 0
    /\ lastIcon = "init"

IconIdle ==
    /\ iconVariant = "uikit"
    /\ iconItem = [imageIcon |-> "none", ring |-> FALSE, systemIcon |-> Nil, image |-> Nil]
    /\ iconColors = [selected |-> Nil, unselected |-> Nil]
    /\ isSelected = FALSE
    /\ appeared = FALSE
    /\ iconFetch = "idle"
    /\ iconOwner = <<>>
    /\ iconPollers = <<>>
    /\ iconQueue = <<>>
    /\ iconImage = NoImage
    /\ selectedImage = NoImage
    /\ nLoads = 0
    /\ nToggles = 0
    /\ lastIcon = "init"

(* loadFallbackImage, and priorities 2 to 4 of loadImageForItem *)
loadFallbackImage(item) ==
    IF item.systemIcon # Nil THEN SystemImage(item.systemIcon)
    ELSE IF item.image # Nil THEN AssetImage(item.image)
    ELSE EmptyImage

(* createSelectedImageWithRing: the ring of the selected image *)
createSelectedImageWithRing(item, colors) ==
    IF item.ring
    THEN addEnhancedRingToImage(Bitmap("none"),
            IF colors.selected # Nil THEN colors.selected ELSE "systemBlue")
    ELSE withRenderingMode(Bitmap("none"))

(* TabIconView.loadImage, the completion's image: ring in the colour of the *)
(* selection the view value held                                            *)
RingedImage(item, colors, sel) ==
    IF item.ring
    THEN LET ringColor == IF sel THEN colors.selected ELSE colors.unselected
         IN  addEnhancedRingToImage(Bitmap("none"),
                IF ringColor # Nil THEN ringColor
                ELSE IF sel THEN "systemBlue" ELSE "systemGray")
    ELSE Bitmap("none")

(* ImageUtils.processImageIcon called for the item's imageIcon by a view    *)
(* whose isSelected is sel; every completion ends in a main.async block     *)
StartLoad(sel) ==
    CASE iconItem.imageIcon = "base64" ->
            /\ iconQueue' = Append(iconQueue, IconBlock("set", sel, "bitmap"))
            /\ UNCHANGED <<iconFetch, iconOwner, iconPollers>>
      [] iconItem.imageIcon \in {"undecodable", "invalid"} ->
            /\ iconQueue' = Append(iconQueue, IconBlock("set", sel, "nil"))
            /\ UNCHANGED <<iconFetch, iconOwner, iconPollers>>
      [] iconItem.imageIcon = "remote" /\ iconFetch = "cached" ->
            /\ iconQueue' = Append(iconQueue, IconBlock("set", sel, "bitmap"))
            /\ UNCHANGED <<iconFetch, iconOwner, iconPollers>>
      [] iconItem.imageIcon = "remote" /\ iconFetch = "inflight" ->
            /\ iconPollers' = Append(iconPollers, sel)
            /\ UNCHANGED <<iconFetch, iconOwner, iconQueue>>
      [] iconItem.imageIcon = "remote" /\ iconFetch \in {"idle", "failed"} ->
            /\ iconFetch' = "inflight"
            /\ iconOwner' = <<sel>>
            /\ UNCHANGED <<iconPollers, iconQueue>>

(* onAppear of TabIconView; loadImageForItem in update of the UIKit overlay *)
IconAppear ==
    /\ ~appeared
    /\ appeared' = TRUE
    /\ IF iconItem.imageIcon = "none"
       THEN /\ iconImage' = IF iconVariant = "swiftui"
                            THEN SystemImage(OverlaySystemIcon)
                            ELSE loadFallbackImage(iconItem)
            /\ nLoads' = nLoads
            /\ UNCHANGED <<iconFetch, iconOwner, iconPollers, iconQueue>>
       ELSE /\ StartLoad(isSelected)
            /\ nLoads' = nLoads + 1
            /\ iconImage' = iconImage
    /\ lastIcon' = "appear"
    /\ UNCHANGED <<iconVariant, iconItem, iconColors, isSelected, selectedImage, nToggles>>
    /\ IconFrame

(* the tab becomes selected or stops being selected; in the SwiftUI view    *)
(* onChange(of: isSelected) calls loadImage                                 *)
IconSelectionChange ==
    /\ nToggles < MaxToggles
    /\ nToggles' = nToggles + 1
    /\ isSelected' = ~isSelected
    /\ IF iconVariant = "swiftui" /\ appeared
       THEN IF iconItem.imageIcon = "none"
            THEN /\ iconImage' = SystemImage(OverlaySystemIcon)
                 /\ nLoads' = nLoads
                 /\ UNCHANGED <<iconFetch, iconOwner, iconPollers, iconQueue>>
            ELSE /\ nLoads < MaxLoads
                 /\ StartLoad(~isSelected)
                 /\ nLoads' = nLoads + 1
                 /\ iconImage' = iconImage
       ELSE UNCHANGED <<iconImage, nLoads, iconFetch, iconOwner, iconPollers, iconQueue>>
    /\ lastIcon' = "select"
    /\ UNCHANGED <<iconVariant, iconItem, iconColors, appeared, selectedImage>>
    /\ IconFrame

(* the data task's handler: cache the image or not, loadingStates = false,  *)
(* main.async { completion(image) }                                         *)
IconFetchDone ==
    /\ iconFetch = "inflight"
    /\ \E ok \in BOOLEAN :
        /\ iconFetch' = IF ok THEN "cached" ELSE "failed"
        /\ iconQueue' = Append(iconQueue,
                IconBlock("completion", iconOwner[1], IF ok THEN "bitmap" ELSE "nil"))
    /\ iconOwner' = <<>>
    /\ lastIcon' = "fetchDone"
    /\ UNCHANGED <<iconVariant, iconItem, iconColors, isSelected, appeared, iconPollers,
                   iconImage, selectedImage, nLoads, nToggles>>
    /\ IconFrame

RemoveAt(s, i) == [j \in 1..(Len(s) - 1) |-> IF j < i THEN s[j] ELSE s[j + 1]]

(* the asyncAfter block of a call that found loadingStates true, fired after *)
(* the fetch ended: loadImageFromUrl again                                   *)
IconPoll ==
    /\ iconFetch # "inflight"
    /\ \E i \in DOMAIN iconPollers :
        /\ iconPollers' = RemoveAt(iconPollers, i)
        /\ IF iconFetch = "cached"
           THEN /\ iconQueue' = Append(iconQueue, IconBlock("set", iconPollers[i], "bitmap"))
                /\ UNCHANGED <<iconFetch, iconOwner>>
           ELSE /\ iconFetch' = "inflight"
                /\ iconOwner' = <<iconPollers[i]>>
                /\ iconQueue' = iconQueue
    /\ lastIcon' = "poll"
    /\ UNCHANGED <<iconVariant, iconItem, iconColors, isSelected, appeared,
                   iconImage, selectedImage, nLoads, nToggles>>
    /\ IconFrame

(* the main queue runs its first block *)
IconMainRun ==
    /\ iconQueue # <<>>
    /\ LET b == Head(iconQueue) IN
       IF b.hop = "completion"
       THEN /\ iconQueue' = Append(Tail(iconQueue), IconBlock("set", b.sel, b.image))
            /\ lastIcon' = "completion"
            /\ UNCHANGED <<iconImage, selectedImage>>
       ELSE /\ iconQueue' = Tail(iconQueue)
            /\ IF b.image = "bitmap"
               THEN /\ lastIcon' = "setImage"
                    /\ IF iconVariant = "swiftui"
                       THEN /\ iconImage' = RingedImage(iconItem, iconColors, b.sel)
                            /\ selectedImage' = selectedImage
                       ELSE /\ iconImage' = withRenderingMode(Bitmap("none"))
                            /\ selectedImage' = createSelectedImageWithRing(iconItem, iconColors)
               ELSE /\ lastIcon' = "fallback"
                    /\ iconImage' = IF iconVariant = "swiftui"
                                    THEN SystemImage(OverlaySystemIcon)
                                    ELSE loadFallbackImage(iconItem)
                    /\ selectedImage' = selectedImage
    /\ UNCHANGED <<iconVariant, iconItem, iconColors, isSelected, appeared, iconFetch,
                   iconOwner, iconPollers, nLoads, nToggles>>
    /\ IconFrame

IconNext ==
    \/ IconAppear
    \/ IconSelectionChange
    \/ IconFetchDone
    \/ IconPoll
    \/ IconMainRun

(* what the tab shows: TabIconView.body; UITabBarItem shows selectedImage   *)
(* when selected and set, image otherwise                                   *)
DisplayedIcon ==
    IF iconVariant = "swiftui"
    THEN IF iconImage # NoImage THEN iconImage ELSE SystemImage(OverlaySystemIcon)
    ELSE IF isSelected /\ selectedImage # NoImage THEN selectedImage ELSE iconImage

LoadInFlight == iconOwner # <<>> \/ iconPollers # <<>> \/ iconQueue # <<>>

(* ================================================================== *)
(* Part VI - icon colours: ColorUtils, isValidColor and configure      *)
(* ================================================================== *)

MaxColorCalls == 2

(* numbers (Double, CGFloat, JS number) are kept to FracDigits decimal places, *)
(* as integers counting units of 10^-FracDigits, and rounded like a float is  *)
FracDigits == 4
Unit == 10 ^ FracDigits

(* colour strings a host passes *)
K_hex3 == <<"#", "F", "0", "0">>
K_hex6 == <<"#", "F", "F", "3", "B", "3", "0">>
K_hex8 == <<"#", "F", "F", "3", "B", "3", "0", "8", "0">>
K_word == <<"r", "e", "d">>
K_hexG == <<"#", "G", "G", "0", "0", "0", "0">>
K_hexSigned == <<"#", "-", "1", "2", "3", "4", "5">>
K_hexBadAlpha == <<"#", "F", "F", "3", "B", "3", "0", "Z", "Z">>
K_rgb == <<"r", "g", "b", "(", "2", "5", "5", ",", "0", ",", "0", ")">>
K_rgba == <<"r", "g", "b", "a", "(", "0", ",", "0", ",", "2", "5", "5", ",", "1", ")">>
K_rgbBig == <<"r", "g", "b", "(", "3", "0", "0", ",", "0", ",", "0", ")">>

ColorStrings == {K_hex3, K_hex6, K_hex8, K_word, K_hexG, K_hexSigned, K_hexBadAlpha,
                 K_rgb, K_rgba, K_rgbBig}
(* an optional value: absent, or present with a value *)
None == <<>>
Some(v) == <<v>>
Get(opt) == opt[1]

ColorOptions == {Some(c) : c \in ColorStrings} \cup {None}

HexDigits == <<"0", "1", "2", "3", "4", "5", "6", "7", "8", "9", "a", "b", "c", "d", "e", "f">>
IsHexDigit(c) == \E i \in DOMAIN HexDigits : HexDigits[i] = ToLowerChar(c)
HexVal(c) == (CHOOSE i \in DOMAIN HexDigits : HexDigits[i] = ToLowerChar(c)) - 1
IsDecDigit(c) == IsHexDigit(c) /\ HexVal(c) < 10

(* the value of a run of digits in a radix, most significant first *)
RECURSIVE DigitsValue(_, _)
DigitsValue(str, radix) ==
    IF str = <<>> THEN 0
    ELSE DigitsValue(SubSeq(str, 1, Len(str) - 1), radix) * radix + HexVal(str[Len(str)])

(* Swift Int(_:radix: 16): an optional sign, then one or more hex digits *)
IntRadix16(str) ==
    LET signed == str # <<>> /\ str[1] \in {"+", "-"}
        digits == IF signed THEN Tail(str) ELSE str
    IN  IF digits = <<>> \/ \E i \in DOMAIN digits : ~IsHexDigit(digits[i]) THEN None
        ELSE IF signed /\ str[1] = "-" THEN Some(0 - DigitsValue(digits, 16))
        ELSE Some(DigitsValue(digits, 16))

(* x / 255 rounded to the nearest number *)
Div255(x) == (2 * x + 255) \div 510

(* a UIColor: red, green, blue, alpha as numbers *)
UIColor(red, green, blue, alpha) == <<red, green, blue, alpha>>

(* "\($0)\($0)" of every character *)
RECURSIVE Doubled(_)
Doubled(str) == IF str = <<>> THEN <<>> ELSE <<str[1], str[1]>> \o Doubled(Tail(str))

(* ColorUtils.parseHexColor *)
parseHexColor(hex) ==
    LET stripped == IF StartsWith(hex, <<"#">>) THEN Tail(hex) ELSE hex IN
    IF Len(stripped) \notin {3, 6, 8} THEN None
    ELSE LET expanded == IF Len(stripped) = 3 THEN Doubled(stripped) ELSE stripped
             alphaInt == IF Len(expanded) = 8 THEN IntRadix16(SubSeq(expanded, 7, 8)) ELSE None
             alpha == IF alphaInt # None THEN Div255(Get(alphaInt) * Unit) ELSE Unit
             colorInt == IntRadix16(SubSeq(expanded, 1, 6))
         IN  IF colorInt = None THEN None
             ELSE Some(UIColor(Div255(((Get(colorInt) \div 65536) % 256) * Unit),
                               Div255(((Get(colorInt) \div 256) % 256) * Unit),
                               Div255((Get(colorInt) % 256) * Unit), alpha))

(* position of the first c in str, 0 when it has none *)
IndexOf(str, c) ==
    IF \E i \in DOMAIN str : str[i] = c
    THEN CHOOSE i \in DOMAIN str : str[i] = c /\ \A j \in 1..(i - 1) : str[j] # c
    ELSE 0

(* the pieces of str between commas *)
RECURSIVE SplitCommas(_)
SplitCommas(str) ==
    IF IndexOf(str, ",") = 0 THEN <<str>>
    ELSE <<SubSeq(str, 1, IndexOf(str, ",") - 1)>>
         \o SplitCommas(SubSeq(str, IndexOf(str, ",") + 1, Len(str)))

IsDecimal(str) == str # <<>> /\ \A i \in DOMAIN str : IsDecDigit(str[i])

(* \d+(?:\.\d+)? *)
IsNumber(str) ==
    IF IndexOf(str, ".") = 0 THEN IsDecimal(str)
    ELSE /\ IsDecimal(SubSeq(str, 1, IndexOf(str, ".") - 1))
         /\ IsDecimal(SubSeq(str, IndexOf(str, ".") + 1, Len(str)))

(* [01](?:\.\d+)? *)
IsAlphaNumber(str) ==
    /\ IsNumber(str)
    /\ str[1] \in {"0", "1"}
    /\ Len(str) = 1 \/ str[2] = "."

(* str without the blanks the \s* around a capture group take *)
RECURSIVE Trim(_)
Trim(str) ==
    IF str # <<>> /\ str[1] = " " THEN Trim(Tail(str))
    ELSE IF str # <<>> /\ str[Len(str)] = " " THEN Trim(SubSeq(str, 1, Len(str) - 1))
    ELSE str

(* the first FracDigits digits after the point, as units *)
FracValue(digits) ==
    DigitsValue([i \in 1..FracDigits |-> IF i <= Len(digits) THEN digits[i] ELSE "0"], 10)

(* parseFloat / Double(_:) of a string that IsNumber *)
ParseFloat(str) ==
    IF IndexOf(str, ".") = 0 THEN DigitsValue(str, 10) * Unit
    ELSE DigitsValue(SubSeq(str, 1, IndexOf(str, ".") - 1), 10) * Unit
         + FracValue(SubSeq(str, IndexOf(str, ".") + 1, Len(str)))

(* the capture groups of                                                     *)
(*   rgba?\(\s*(\d+(?:\.\d+)?)\s*,\s*(\d+(?:\.\d+)?)\s*,\s*(\d+(?:\.\d+)?)\s*     *)
(*   (?:,\s*([01](?:\.\d+)?))?\s*\)                                          *)
(* under the "i" flag, as the strings captured; None when the pattern does  *)
(* not match. anchored: the pattern carries ^ and $ (color-utils.ts);       *)
(* without them (NSRegularExpression.firstMatch) text may follow the ")"    *)
RgbaCaptures(str, anchored) ==
    LET open == IndexOf(str, "(")
        close == IndexOf(str, ")")
        raw == IF open # 0 /\ close > open
               THEN SplitCommas(SubSeq(str, open + 1, close - 1)) ELSE <<>>
        parts == [i \in DOMAIN raw |-> Trim(raw[i])]
    IN  IF /\ open # 0 /\ close > open
           /\ ToLower(SubSeq(str, 1, open - 1)) \in {<<"r", "g", "b">>, <<"r", "g", "b", "a">>}
           /\ (anchored => close = Len(str))
           /\ Len(parts) \in {3, 4}
           /\ \A i \in 1..3 : IsNumber(parts[i])
           /\ (Len(parts) = 4 => IsAlphaNumber(parts[4]))
        THEN Some(parts)
        ELSE None

(* a range test of parseRgbaColor that would let every component through *)
InRange_Any(red, green, blue, alpha) == TRUE

(* the range test of parseRgbaColor and isValidRgbaColor *)
InRange(red, green, blue, alpha) ==
    /\ red >= 0 /\ red <= 255 * Unit
    /\ green >= 0 /\ green <= 255 * Unit
    /\ blue >= 0 /\ blue <= 255 * Unit
    /\ alpha >= 0 /\ alpha <= Unit

(* ColorUtils.parseRgbaColor *)
parseRgbaColor(rgba) ==
    LET match == RgbaCaptures(rgba, FALSE) IN
    IF match = None THEN None
    ELSE LET m == Get(match)
             red == ParseFloat(m[1])
             green == ParseFloat(m[2])
             blue == ParseFloat(m[3])
             alpha == IF Len(m) = 4 THEN ParseFloat(m[4]) ELSE Unit
         IN  IF InRange(red, green, blue, alpha)
             THEN Some(UIColor(Div255(red), Div255(green), Div255(blue), alpha))
             ELSE None

(* ColorUtils.parseColor *)
parseColor(colorString) ==
    IF colorString = None \/ Get(colorString) = <<>> THEN None
    ELSE IF StartsWith(Get(colorString), <<"#">>) THEN parseHexColor(Get(colorString))
    ELSE IF StartsWith(ToLower(Get(colorString)), <<"r", "g", "b">>)
         THEN parseRgbaColor(Get(colorString))
    ELSE None

(* a validator that would not insist on the leading "#" *)
isValidHexColor_AnyLead(color) ==
    /\ Len(color) \in {4, 7, 9}
    /\ \A i \in 2..Len(color) : IsHexDigit(color[i])

(* color-utils.ts isValidHexColor: /^#([A-Fa-f0-9]{3}|[A-Fa-f0-9]{6}|[A-Fa-f0-9]{8})$/ *)
isValidHexColor(color) ==
    /\ StartsWith(color, <<"#">>)
    /\ Len(color) - 1 \in {3, 6, 8}
    /\ \A i \in 2..Len(color) : IsHexDigit(color[i])

(* color-utils.ts isValidRgbaColor *)
isValidRgbaColor(color) ==
    LET match == RgbaCaptures(color, TRUE) IN
    /\ match # None
    /\ LET m == Get(match) IN
       InRange(ParseFloat(m[1]), ParseFloat(m[2]), ParseFloat(m[3]),
               IF Len(m) = 4 THEN ParseFloat(m[4]) ELSE Unit)

(* color-utils.ts isValidColor *)
isValidColor(color) ==
    /\ color # None /\ Get(color) # <<>>
    /\ isValidHexColor(Get(color)) \/ isValidRgbaColor(Get(color))

(* the decimal digits of a natural number *)
RECURSIVE NatToString(_)
NatToString(n) ==
    IF n < 10 THEN <<HexDigits[n + 1]>>
    ELSE NatToString(n \div 10) \o <<HexDigits[(n % 10) + 1]>>

(* digits without their trailing zeros *)
RECURSIVE StripZeros(_)
StripZeros(digits) ==
    IF digits # <<>> /\ digits[Len(digits)] = "0"
    THEN StripZeros(SubSeq(digits, 1, Len(digits) - 1))
    ELSE digits

(* digits left as they are, without the zeros that follow the point *)
PadLeft_None(digits, k) == digits

(* the digits of n, padded on the left to k places *)
PadLeft(digits, k) == [i \in 1..(k - Len(digits)) |-> "0"] \o digits

(* `${x}` of a non-negative number: no point when it is whole *)
NumberToString(x) ==
    IF x % Unit = 0 THEN NatToString(x \div Unit)
    ELSE NatToString(x \div Unit) \o <<".">>
         \o StripZeros(PadLeft(NatToString(x % Unit), FracDigits))

(* parseInt(two hex digits, 16) *)
ParseInt16(str) == DigitsValue(str, 16)

(* color-utils.ts hexToRgba with the default alpha: the string             *)
(* `rgba(${r}, ${g}, ${b}, ${alpha})`, None for null                       *)
hexToRgba(hex) ==
    IF ~isValidHexColor(hex) THEN None
    ELSE LET bare == Tail(hex)
             expanded == IF Len(bare) = 3 THEN Doubled(bare) ELSE bare
             alpha == IF Len(expanded) = 8
                      THEN Div255(ParseInt16(SubSeq(expanded, 7, 8)) * Unit) ELSE Unit
             r == ParseInt16(SubSeq(expanded, 1, 2))
             g == ParseInt16(SubSeq(expanded, 3, 4))
             b == ParseInt16(SubSeq(expanded, 5, 6))
         IN  Some(<<"r", "g", "b", "a", "(">> \o NatToString(r) \o <<",", " ">>
                  \o NatToString(g) \o <<",", " ">> \o NatToString(b) \o <<",", " ">>
                  \o NumberToString(alpha) \o <<")">>)

(* the object { r, g, b, a } *)
Rgba(r, g, b, a) == [r |-> r, g |-> g, b |-> b, a |-> a]

(* color-utils.ts normalizeColor, None for null *)
normalizeColor(color) ==
    IF color = <<>> THEN None
    ELSE LET rgba == IF isValidHexColor(color) THEN hexToRgba(color) ELSE Some(color) IN
         IF rgba = None THEN None
         ELSE IF isValidRgbaColor(Get(rgba))
              THEN LET m == Get(RgbaCaptures(Get(rgba), TRUE)) IN
                   Some(Rgba(Div255(ParseFloat(m[1])), Div255(ParseFloat(m[2])),
                             Div255(ParseFloat(m[3])),
                             IF Len(m) = 4 THEN ParseFloat(m[4]) ELSE Unit))
              ELSE None

(* both parsers, once per colour string of the model *)
ParsedColor == [c \in ColorOptions |-> parseColor(c)]
ValidColor == [c \in ColorOptions |-> isValidColor(c)]

(* the warnings a configure logs: the roles whose colour it takes for invalid *)
NativeWarnings(selected, unselected) ==
    (IF selected # None /\ ParsedColor[selected] = None THEN {"selected"} ELSE {})
    \cup (IF unselected # None /\ ParsedColor[unselected] = None THEN {"unselected"} ELSE {})

WebWarnings(selected, unselected) ==
    (IF selected # None /\ ~ValidColor[selected] THEN {"selected"} ELSE {})
    \cup (IF unselected # None /\ ~ValidColor[unselected] THEN {"unselected"} ELSE {})

(* a configure call as far as colours go *)
ColorCall(hasItems, selected, unselected, outcome, warnings) ==
    [hasItems |-> hasItems, selected |-> selected, unselected |-> unselected,
     outcome |-> outcome, warnings |-> warnings]

NoColors == [selected |-> None, unselected |-> None]

ColorStart ==
    /\ colorQueue = <<>>
    /\ overlayColors = NoColors
    /\ tabBarTint = NoColors
    /\ colorCall = ColorCall(FALSE, None, None, "none", {})
    /\ nColorCalls = 0
    /\ lastColor = "init"

ColorInit == colorPlatform \in {"uikit", "swiftui", "web"} /\ ColorStart
ColorIdle == colorPlatform = "uikit" /\ ColorStart

(* configure with its colour options; the items are one valid item or missing *)
ColorConfigure ==
    /\ nColorCalls < MaxColorCalls
    /\ colorQueue = <<>>
    /\ nColorCalls' = nColorCalls + 1
    /\ \E hasItems \in BOOLEAN, selected \in ColorOptions, unselected \in ColorOptions :
        IF colorPlatform = "web"
        THEN /\ colorCall' = ColorCall(hasItems, selected, unselected,
                    IF hasItems THEN "resolved" ELSE "rejected",
                    WebWarnings(selected, unselected))
             /\ colorQueue' = colorQueue
        ELSE IF ConfigureRejects(hasItems, <<[id |-> "a"]>>)
        THEN /\ colorCall' = ColorCall(hasItems, selected, unselected, "rejected", {})
             /\ colorQueue' = colorQueue
        ELSE /\ colorCall' = ColorCall(hasItems, selected, unselected, "resolved",
                    NativeWarnings(selected, unselected))
             /\ colorQueue' = <<[selected |-> ParsedColor[selected],
                                 unselected |-> ParsedColor[unselected]]>>
    /\ lastColor' = "configure"
    /\ UNCHANGED <<colorPlatform, overlayColors, tabBarTint>>
    /\ ColorFrame

(* applyColorConfiguration of the UIKit overlay: the new tints of the bar *)
applyColorConfiguration(colors) ==
    [selected |-> IF colors.selected # None THEN colors.selected ELSE tabBarTint.selected,
     unselected |-> IF colors.unselected # None THEN colors.unselected
                    ELSE tabBarTint.unselected]

(* the block of configure: overlay.update stores the colours *)
ColorUpdate ==
    /\ colorQueue # <<>>
    /\ colorQueue' = Tail(colorQueue)
    /\ overlayColors' = Head(colorQueue)
    /\ tabBarTint' = IF colorPlatform = "uikit" THEN applyColorConfiguration(Head(colorQueue))
                     ELSE tabBarTint
    /\ lastColor' = "update"
    /\ UNCHANGED <<colorPlatform, colorCall, nColorCalls>>
    /\ ColorFrame

ColorNext ==
    \/ ColorConfigure
    \/ ColorUpdate

(* the colour the bar draws a role in, None for the platform's default:      *)
(* tabBar.tintColor / unselectedItemTintColor (UIKit), foregroundColor of    *)
(* TabIconView (SwiftUI)                                                     *)
UsedColor ==
    IF colorPlatform = "uikit" THEN tabBarTint ELSE overlayColors

(* ================================================================== *)
(* Part VII - the colour utilities applied to one string               *)
(* ================================================================== *)

MaxHexLen == 6

(* a digit, a lower-case and an upper-case hex letter, and a letter that is none *)
HexAlphabet == {"0", "c", "F", "g"}

(* "#" or nothing, then up to MaxHexLen characters, or 6 digits and 2 more *)
HexBodies ==
    SeqsUpTo(HexAlphabet, MaxHexLen)
    \cup {x \o y : x \in [1..6 -> {"0", "F"}], y \in [1..2 -> HexAlphabet]}

HexInputs == HexBodies \cup {<<"#">> \o body : body \in HexBodies}

(* the pieces rgb()/rgba() strings are made of *)
RgbaNames == {<<"r", "g", "b">>, <<"r", "g", "b", "a">>, <<"R", "G", "B", "A">>}
RgbaComponents == {<<"0">>, <<"8", "7">>, <<"2", "5", "5">>, <<"2", "5", "6">>}
RgbaAlphas == {<<"0">>, <<"1">>, <<"0", ".", "8">>, <<"1", ".", "5">>, <<"-", "0", ".", "1">>}
RgbaSeparators == {<<",">>, <<",", " ">>}

(* two to five values between the parentheses *)
RgbaValueLists ==
    [1..2 -> RgbaComponents] \cup [1..3 -> RgbaComponents]
    \cup {c \o <<a>> : c \in [1..3 -> RgbaComponents], a \in RgbaAlphas}
    \cup {<<c, c, c, a, a>> : c \in RgbaComponents, a \in RgbaAlphas}

RECURSIVE Join(_, _)
Join(values, sep) ==
    IF Len(values) = 1 THEN values[1]
    ELSE values[1] \o sep \o Join(Tail(values), sep)

RgbaInputs ==
    {name \o <<"(">> \o Join(values, sep) \o <<")">> :
        name \in RgbaNames, values \in RgbaValueLists, sep \in RgbaSeparators}

UtilInputs == HexInputs \cup RgbaInputs \cup ColorStrings

UtilStart ==
    /\ utilOp = "none"
    /\ utilResult = None

UtilInit == utilInput \in UtilInputs /\ UtilStart
UtilIdle == utilInput = <<>> /\ UtilStart

(* normalizeColor(color) *)
NormalizeColor ==
    /\ utilOp = "none"
    /\ utilOp' = "normalizeColor"
    /\ utilResult' = normalizeColor(utilInput)
    /\ UNCHANGED utilInput
    /\ UtilFrame

(* hexToRgba(hex) *)
HexToRgba ==
    /\ utilOp = "none"
    /\ utilOp' = "hexToRgba"
    /\ utilResult' = hexToRgba(utilInput)
    /\ UNCHANGED utilInput
    /\ UtilFrame

(* ColorUtils.parseColor(colorString) *)
ParseColor ==
    /\ utilOp = "none"
    /\ utilOp' = "parseColor"
    /\ utilResult' = parseColor(Some(utilInput))
    /\ UNCHANGED utilInput
    /\ UtilFrame

UtilNext ==
    \/ NormalizeColor
    \/ HexToRgba
    \/ ParseColor

(* ================================================================== *)
(* Part VIII - the image cache over time: ImageManager (web) and       *)
(*             ImageUtils (iOS)                                        *)
(* ================================================================== *)

MaxClock == 3
MaxTransfers == 2
MaxCacheLoads == 3

(* ImageManager.CACHE_DURATION, 24 hours, in ticks of 12 hours *)
CACHE_DURATION == 2

(* ImageValidator.MAX_FILE_SIZE, ImageUtils.maxFileSize: 5 * 1024 * 1024 *)
MAX_FILE_SIZE == 5242880

CacheUrls == {Url_A, Url_B}

(* ImageValidator.SUPPORTED_FORMATS, validTypes of loadImageFromUrl *)
SUPPORTED_FORMATS ==
    {W_image \o W_png, W_image \o W_jpeg, W_image \o W_jpg, W_image \o W_svgxml,
     W_image \o W_webp}

(* ImageValidator.isValidImageFormat *)
isValidImageFormat(contentType) == ToLower(contentType) \in SUPPORTED_FORMATS

(* ImageValidator.validateImageSize *)
validateImageSize(size) == size <= MAX_FILE_SIZE

(* what a fetch comes back with: the status (0: no response, the request     *)
(* failed), the Content-Type header / httpResponse.mimeType, None when there *)
(* is none, the size of the body and whether UIImage(data:) can decode it    *)
Response(status, contentType, size, decodes) ==
    [status |-> status, contentType |-> contentType, size |-> size, decodes |-> decodes]

NoResponse == Response(0, None, 0, FALSE)

ContentTypes ==
    {None, Some(W_image \o W_png), Some(W_IMAGE \o W_PNG), Some(W_image \o W_svgxml),
     Some(W_image \o W_gif)}

Responses ==
    {Response(st, ct, sz, dec) :
        st \in {0, 200, 204, 404}, ct \in ContentTypes,
        sz \in {MAX_FILE_SIZE, MAX_FILE_SIZE + 1}, dec \in BOOLEAN}

(* response.ok *)
ResponseOk(response) == response.status >= 200 /\ response.status <= 299

(* the checks of fetchAndCacheImage before the blob is cached *)
AdmitsWeb(response) ==
    /\ ResponseOk(response)
    /\ isValidImageFormat(IF response.contentType = None THEN <<>>
                          ELSE Get(response.contentType))
    /\ validateImageSize(response.size)

(* the checks of loadImageFromUrl's data task handler before the image is cached *)
AdmitsIos(response) ==
    /\ response.status = 200
    /\ response.contentType # None => isValidImageFormat(Get(response.contentType))
    /\ response.size <= MAX_FILE_SIZE
    /\ response.decodes

Entry(timestamp, objectUrl) == Some([timestamp |-> timestamp, objectUrl |-> objectUrl])

(* what a step leaves behind for the record: the operation, its url, how a  *)
(* request was answered, the age of the entry it found, whether a fetch was *)
(* in flight, the response of a settled fetch and whether it was cached     *)
CacheEvent(op, url, how, age, inflight, response, admitted) ==
    [op |-> op, url |-> url, how |-> how, age |-> age, inflight |-> inflight,
     response |-> response, admitted |-> admitted]

(* a fetch of url is on the network *)
FetchInFlight(url) == \E f \in DOMAIN transfers : transfers[f] = Fetch(url, "net")

AgeOf(url) == IF entries[url] = None THEN None ELSE Some(clock - Get(entries[url]).timestamp)

CacheStart ==
    /\ clock = 0
    /\ entries = [u \in CacheUrls |-> None]
    /\ pending = [u \in CacheUrls |-> 0]
    /\ transfers = <<>>
    /\ retries = [u \in CacheUrls |-> 0]
    /\ created = {}
    /\ revoked = {}
    /\ nCacheLoads = 0
    /\ nCacheClears = 0
    /\ lastCache = CacheEvent("init", <<>>, "none", None, FALSE, NoResponse, FALSE)

CacheInit == cachePlatform \in {"web", "ios"} /\ CacheStart
CacheIdle == cachePlatform = "web" /\ CacheStart

(* how loadRemoteImage (web) / loadImageFromUrl (iOS) answers a request *)
AnswerOf(url) ==
    IF cachePlatform = "web"
    THEN IF pending[url] # 0 THEN "joined"
         ELSE IF entries[url] # None /\ clock - Get(entries[url]).timestamp < CACHE_DURATION
              THEN "cache"
         ELSE "fetch"
    ELSE IF entries[url] # None THEN "cache"
         ELSE IF pending[url] # 0 THEN "poll"
         ELSE "fetch"

(* the effect of the request on the loader *)
Answer(url) ==
    /\ AnswerOf(url) = "fetch" => Len(transfers) < MaxTransfers
    /\ transfers' = IF AnswerOf(url) = "fetch" THEN Append(transfers, Fetch(url, "net"))
                    ELSE transfers
    /\ pending' = IF AnswerOf(url) = "fetch"
                  THEN [pending EXCEPT ![url] = Len(transfers) + 1] ELSE pending

(* ImageManager.loadRemoteImage up to its await; ImageUtils.loadImageFromUrl *)
CacheLoad ==
    /\ nCacheLoads < MaxCacheLoads
    /\ nCacheLoads' = nCacheLoads + 1
    /\ \E url \in CacheUrls :
        /\ Answer(url)
        /\ retries' = IF AnswerOf(url) = "poll" THEN [retries EXCEPT ![url] = @ + 1]
                      ELSE retries
        /\ lastCache' = CacheEvent("load", url, AnswerOf(url), AgeOf(url), FetchInFlight(url),
                                   NoResponse, FALSE)
    /\ UNCHANGED <<cachePlatform, clock, entries, created, revoked, nCacheClears>>
    /\ CacheFrame

(* the asyncAfter block of a waiting call: loadImageFromUrl again *)
CachePoll ==
    /\ \E url \in CacheUrls :
        /\ retries[url] > 0
        /\ Answer(url)
        /\ retries' = IF AnswerOf(url) = "poll" THEN retries
                      ELSE [retries EXCEPT ![url] = @ - 1]
        /\ lastCache' = CacheEvent("poll", url, AnswerOf(url), AgeOf(url), FetchInFlight(url),
                                   NoResponse, FALSE)
    /\ UNCHANGED <<cachePlatform, clock, entries, created, revoked, nCacheLoads, nCacheClears>>
    /\ CacheFrame

(* a release that is forgotten *)
revokeObjectURL_Forgotten(released, entry) == released

(* URL.revokeObjectURL for the entry, if there is one *)
revokeObjectURL(released, entry) ==
    IF entry = None THEN released ELSE released \cup {Get(entry).objectUrl}

(* the urls whose entries cleanupCache deletes at time `now` *)
Expired(es, now) ==
    {u \in CacheUrls : es[u] # None /\ now - Get(es[u]).timestamp > CACHE_DURATION}

(* ImageManager.cleanupCache: the cache it leaves *)
cleanupCache(es, now) == [u \in CacheUrls |-> IF u \in Expired(es, now) THEN None ELSE es[u]]

(* the object URLs revoked once every entry of `urls` has been released *)
RECURSIVE RevokeAll(_, _, _)
RevokeAll(released, es, urls) ==
    IF urls = {} THEN released
    ELSE LET u == CHOOSE x \in urls : TRUE IN
         RevokeAll(revokeObjectURL(released, es[u]), es, urls \ {u})

(* fetchAndCacheImage settles, and loadRemoteImage's continuation deletes   *)
(* the loading promise; on iOS the data task's handler with its defer       *)
CacheSettle ==
    /\ \E f \in DOMAIN transfers, response \in Responses :
        /\ transfers[f].st = "net"
        /\ cachePlatform = "web" => response.decodes
        /\ LET url == transfers[f].url
               admitted == IF cachePlatform = "web" THEN AdmitsWeb(response)
                           ELSE AdmitsIos(response)
               stored == [entries EXCEPT ![url] =
                            Entry(clock, IF cachePlatform = "web" THEN f ELSE 0)]
           IN /\ entries' = IF ~admitted THEN entries
                            ELSE IF cachePlatform = "web" THEN cleanupCache(stored, clock)
                            ELSE stored
              /\ created' = IF admitted /\ cachePlatform = "web" THEN created \cup {f}
                            ELSE created
              /\ revoked' = IF admitted /\ cachePlatform = "web"
                            THEN RevokeAll(revokeObjectURL(revoked, entries[url]),
                                           stored, Expired(stored, clock))
                            ELSE revoked
              /\ lastCache' = CacheEvent("settle", url, "none", AgeOf(url), TRUE,
                                         response, admitted)
              /\ pending' = [pending EXCEPT ![url] = 0]
        /\ transfers' = [transfers EXCEPT ![f].st = "done"]
    /\ UNCHANGED <<cachePlatform, clock, retries, nCacheLoads, nCacheClears>>
    /\ CacheFrame

(* ImageManager.clearCache; ImageUtils.clearCache *)
CacheClear ==
    /\ nCacheClears < MaxClears
    /\ nCacheClears' = nCacheClears + 1
    /\ revoked' = IF cachePlatform = "web" THEN RevokeAll(revoked, entries, CacheUrls)
                  ELSE revoked
    /\ entries' = [u \in CacheUrls |-> None]
    /\ pending' = [u \in CacheUrls |-> 0]
    /\ lastCache' = CacheEvent("clear", <<>>, "none", None, FALSE, NoResponse, FALSE)
    /\ UNCHANGED <<cachePlatform, clock, transfers, retries, created, nCacheLoads>>
    /\ CacheFrame

(* time passes *)
CacheTick ==
    /\ clock < MaxClock
    /\ clock' = clock + 1
    /\ lastCache' = CacheEvent("tick", <<>>, "none", None, FALSE, NoResponse, FALSE)
    /\ UNCHANGED <<cachePlatform, entries, pending, transfers, retries, created, revoked,
                   nCacheLoads, nCacheClears>>
    /\ CacheFrame

CacheNext ==
    \/ CacheLoad
    \/ CachePoll
    \/ CacheSettle
    \/ CacheClear
    \/ CacheTick

(* ================================================================== *)
(* Part IX - the geometry of an icon: applyImageIconStyling and the    *)
(*           ring drawn around the styled bitmap                       *)
(* ================================================================== *)

MaxSide == 4

(* a CGFloat is kept as the exact fraction <<numerator, denominator>> in lowest terms *)
RECURSIVE GCD(_, _)
GCD(a, b) == IF b = 0 THEN a ELSE GCD(b, a % b)

Abs(n) == IF n < 0 THEN -n ELSE n
Rat(n, d) == LET g == GCD(Abs(n), d) IN <<n \div g, d \div g>>
Whole(n) == <<n, 1>>
RatAdd(p, q) == Rat(p[1] * q[2] + q[1] * p[2], p[2] * q[2])
RatSub(p, q) == Rat(p[1] * q[2] - q[1] * p[2], p[2] * q[2])
RatMul(p, q) == Rat(p[1] * q[1], p[2] * q[2])
RatDiv(p, q) == Rat(p[1] * q[2], p[2] * q[1])
RatLeq(p, q) == p[1] * q[2] <= q[1] * p[2]
min(p, q) == IF RatLeq(p, q) THEN p ELSE q
max(p, q) == IF RatLeq(p, q) THEN q ELSE p

CGSize(w, h) == [width |-> w, height |-> h]
CGRect(x, y, w, h) == [x |-> x, y |-> y, width |-> w, height |-> h]
NoRect == CGRect(Whole(0), Whole(0), Whole(0), Whole(0))

(* what one drawing function did: the context it opened and what it drew into it *)
Drawing(canvas, imageRect, clip, ringRect, stroke, cornerRadius, lineWidth) ==
    [canvas |-> canvas, imageRect |-> imageRect, clip |-> clip, ringRect |-> ringRect,
     stroke |-> stroke, cornerRadius |-> cornerRadius, lineWidth |-> lineWidth]

(* decoded images: small ones, and the sizes of the placeholder images *)
ImageSizes ==
    {CGSize(Whole(w), Whole(h)) : w \in 1..MaxSide, h \in 1..MaxSide}
    \cup {CGSize(Whole(100), Whole(50)), CGSize(Whole(50), Whole(100)),
          CGSize(Whole(50), Whole(50)), CGSize(Whole(30), Whole(30))}

(* ring.width ?? 2.0 *)
RingWidths == {Whole(1), Whole(2), Whole(3), <<3, 2>>}

Shapes == {"circle", "square", "hexagon"}
SizeModes == {"cover", "stretch", "fit", "auto"}

(* let targetSize = CGSize(width: 24, height: 24) in TabsBarOverlay.swift, 20 in ImageUtils *)
targetSize(v) ==
    IF v = "uikit" THEN CGSize(Whole(24), Whole(24)) ELSE CGSize(Whole(20), Whole(20))

(* resizeImageAspectFill(image, targetSize) *)
resizeImageAspectFill(size, target) ==
    LET widthRatio == RatDiv(target.width, size.width)
        heightRatio == RatDiv(target.height, size.height)
        ratio == max(widthRatio, heightRatio)
        newSize == CGSize(RatMul(size.width, ratio), RatMul(size.height, ratio))
        rect == CGRect(RatDiv(RatSub(target.width, newSize.width), Whole(2)),
                       RatDiv(RatSub(target.height, newSize.height), Whole(2)),
                       newSize.width, newSize.height)
    IN Drawing(target, rect, "none", NoRect, "none", Whole(0), Whole(0))

(* resizeImageToFill(image, targetSize) *)
resizeImageToFill(size, target) ==
    Drawing(target, CGRect(Whole(0), Whole(0), target.width, target.height),
            "none", NoRect, "none", Whole(0), Whole(0))

(* a fit that would take the larger of the two ratios and no inset *)
resizeImageAspectFit_Fill(size, target) == resizeImageAspectFill(size, target)

padding == 4

(* resizeImageAspectFit(image, targetSize) *)
resizeImageAspectFit(size, target) ==
    LET availableSize == CGSize(RatSub(target.width, RatMul(Whole(padding), Whole(2))),
                                RatSub(target.height, RatMul(Whole(padding), Whole(2))))
        widthRatio == RatDiv(availableSize.width, size.width)
        heightRatio == RatDiv(availableSize.height, size.height)
        ratio == min(widthRatio, heightRatio)
        newSize == CGSize(RatMul(size.width, ratio), RatMul(size.height, ratio))
        rect == CGRect(RatDiv(RatSub(target.width, newSize.width), Whole(2)),
                       RatDiv(RatSub(target.height, newSize.height), Whole(2)),
                       newSize.width, newSize.height)
    IN Drawing(target, rect, "none", NoRect, "none", Whole(0), Whole(0))

(* makeCircularImage(image): the same canvas, clipped to the ellipse in it *)
makeCircularImage(d) == [d EXCEPT !.clip = "ellipse"]

(* applyImageIconStyling(image, shape, size) *)
applyImageIconStyling(size, shape, mode, v) ==
    LET resizedImage ==
            CASE mode = "cover" -> resizeImageAspectFill(size, targetSize(v))
              [] mode = "stretch" -> resizeImageToFill(size, targetSize(v))
              [] mode = "fit" -> resizeImageAspectFit(size, targetSize(v))
              [] OTHER -> resizeImageAspectFit(size, targetSize(v))
    IN IF shape = "circle" THEN makeCircularImage(resizedImage) ELSE resizedImage

(* the stroke of either ring function: an ellipse for a square image *)
StrokeOf(size) == IF size.width = size.height THEN "ellipse" ELSE "roundedRect"
CornerRadiusOf(size) ==
    IF size.width = size.height THEN Whole(0)
    ELSE RatMul(min(size.width, size.height), <<1, 10>>)

bottomPadding == 2

(* ImageUtils.addEnhancedRingToImage(image, ringWidth:, ringColor:): the rectangles it draws *)
addEnhancedRingToImageRects(size, w) ==
    LET spacerWidth == w
        totalRingSpace == RatAdd(spacerWidth, w)
        newSize == CGSize(RatAdd(size.width, RatMul(totalRingSpace, Whole(2))),
                          RatAdd(RatAdd(size.height, RatMul(totalRingSpace, Whole(2))),
                                 Whole(bottomPadding)))
        imageRect == CGRect(totalRingSpace, totalRingSpace, size.width, size.height)
        ringRect == CGRect(RatDiv(w, Whole(2)), RatDiv(w, Whole(2)),
                           RatSub(newSize.width, w),
                           RatSub(RatSub(newSize.height, w), Whole(bottomPadding)))
    IN Drawing(newSize, imageRect, "none", ringRect, StrokeOf(size), CornerRadiusOf(size), w)

(* TabsBarOverlay.ImageUtils.addRingToImage(image, ringWidth:, ringColor:): the rectangles it draws *)
addRingToImageRects(size, w) ==
    LET newSize == CGSize(RatAdd(size.width, RatMul(w, Whole(2))),
                          RatAdd(size.height, RatMul(w, Whole(2))))
        ringRect == CGRect(RatDiv(w, Whole(2)), RatDiv(w, Whole(2)),
                           RatAdd(size.width, w), RatAdd(size.height, w))
        imageRect == CGRect(w, w, size.width, size.height)
    IN Drawing(newSize, imageRect, "none", ringRect, StrokeOf(size), CornerRadiusOf(size), w)

GeomStart ==
    /\ styled = FALSE
    /\ ringed = FALSE
    /\ lastDraw = [op |-> "none", shape |-> "none", mode |-> "none", in |-> bitmap,
                   out |-> Drawing(bitmap, NoRect, "none", NoRect, "none", Whole(0), Whole(0))]

GeomInit ==
    /\ geomVariant \in {"uikit", "swiftui"}
    /\ bitmap \in ImageSizes
    /\ ringWidth \in RingWidths
    /\ GeomStart

GeomIdle ==
    /\ geomVariant = "uikit"
    /\ bitmap = CGSize(Whole(1), Whole(1))
    /\ ringWidth = Whole(2)
    /\ GeomStart

(* processImageIcon hands the decoded image to applyImageIconStyling *)
ApplyImageIconStyling ==
    /\ ~styled /\ ~ringed
    /\ \E shape \in Shapes, mode \in SizeModes :
         LET d == applyImageIconStyling(bitmap, shape, mode, geomVariant) IN
           /\ bitmap' = d.canvas
           /\ lastDraw' = [op |-> "style", shape |-> shape, mode |-> mode,
                           in |-> bitmap, out |-> d]
    /\ styled' = TRUE
    /\ UNCHANGED <<geomVariant, ringWidth, ringed>>
    /\ GeomFrame

(* createSelectedImageWithRing (UIKit) and TabIconView.loadImage (SwiftUI) with ring.enabled *)
AddRing ==
    /\ ~ringed
    /\ LET d == IF geomVariant = "uikit" THEN addRingToImageRects(bitmap, ringWidth)
                ELSE addEnhancedRingToImageRects(bitmap, ringWidth) IN
         /\ bitmap' = d.canvas
         /\ lastDraw' = [op |-> "ring", shape |-> "none", mode |-> "none",
                         in |-> bitmap, out |-> d]
    /\ ringed' = TRUE
    /\ UNCHANGED <<geomVariant, ringWidth, styled>>
    /\ GeomFrame

GeomNext ==
    \/ ApplyImageIconStyling
    \/ AddRing

(* ================================================================== *)
(* Specifications                                                      *)
(* ================================================================== *)

ClassifyNext ==
    \/ LoadImageClassify
    \/ ProcessImageIconClassify

(* a part that does not take part in a specification rests in one state *)
ClassifyIdle ==
    /\ source = W_none
    /\ webClass = "none"
    /\ nativeClass = "none"

(* the plugin and its overlay *)
Init == TabInit /\ ClassifyIdle /\ NativeInit /\ WebInit /\ IconIdle /\ ColorIdle /\ UtilIdle /\ CacheIdle
    /\ GeomIdle
Spec == Init /\ [][Next]_vars

(* the classifiers, applied to one source *)
InitClassify == TabIdle /\ ClassifyInit /\ NativeInit /\ WebInit /\ IconIdle /\ ColorIdle /\ UtilIdle /\ CacheIdle
    /\ GeomIdle
SpecClassify == InitClassify /\ [][ClassifyNext]_vars

(* the Swift loader *)
InitNative == TabIdle /\ ClassifyIdle /\ NativeInit /\ WebInit /\ IconIdle /\ ColorIdle /\ UtilIdle /\ CacheIdle
    /\ GeomIdle
SpecNative == InitNative /\ [][NativeNext]_vars

(* the web loader *)
InitWeb == TabIdle /\ ClassifyIdle /\ NativeInit /\ WebInit /\ IconIdle /\ ColorIdle /\ UtilIdle /\ CacheIdle
    /\ GeomIdle
SpecWeb == InitWeb /\ [][WebNext]_vars

(* the icon of one tab *)
InitIcon == TabIdle /\ ClassifyIdle /\ NativeInit /\ WebInit /\ IconInit /\ ColorIdle /\ UtilIdle /\ CacheIdle
    /\ GeomIdle
SpecIcon == InitIcon /\ [][IconNext]_vars

(* configure and the icon colours *)
InitColor == TabIdle /\ ClassifyIdle /\ NativeInit /\ WebInit /\ IconIdle /\ ColorInit /\ UtilIdle /\ CacheIdle
    /\ GeomIdle
SpecColor == InitColor /\ [][ColorNext]_vars

(* the colour utilities *)
InitUtil ==
    /\ TabIdle /\ ClassifyIdle /\ NativeInit /\ WebInit /\ IconIdle /\ ColorIdle
    /\ UtilInit /\ CacheIdle /\ GeomIdle
SpecUtil == InitUtil /\ [][UtilNext]_vars

(* the image cache over time *)
InitCache ==
    /\ TabIdle /\ ClassifyIdle /\ NativeInit /\ WebInit /\ IconIdle /\ ColorIdle
    /\ UtilIdle /\ CacheInit /\ GeomIdle
SpecCache == InitCache /\ [][CacheNext]_vars

(* the geometry of an icon *)
InitGeom ==
    /\ TabIdle /\ ClassifyIdle /\ NativeInit /\ WebInit /\ IconIdle /\ ColorIdle
    /\ UtilIdle /\ CacheIdle /\ GeomInit
SpecGeom == InitGeom /\ [][GeomNext]_vars



(* ================================================================== *)
(* Claims about the loaders and the classifier                         *)
(* ================================================================== *)

(* C1, Swift loader (checked under SpecNative): while the cache has not been *)
(* cleared, a request that arrives while a fetch of its URL is in flight     *)
(* never starts a fetch of its own, and what it is finally given is the     *)
(* result of that first fetch, success or failure.                          *)
C1_JoinersShareFirstFetch ==
    clears = 0 =>
        \A r \in DOMAIN requests :
            requests[r].joined # 0 =>
                /\ requests[r].task = 0
                /\ requests[r].st = "done" =>
                      /\ requests[r].result = tasks[requests[r].joined].result
                      /\ requests[r].result = "image" => requests[r].from = requests[r].joined

(* C1, web loader (checked under SpecWeb): the same property of              *)
(* ImageManager.loadRemoteImage.                                            *)
C1_WebJoinersShareFirstFetch ==
    webClears = 0 =>
        \A l \in DOMAIN loads :
            loads[l].joined # 0 =>
                /\ ~loads[l].owner
                /\ loads[l].fetch = loads[l].joined
                /\ loads[l].st = "done" =>
                      /\ (loads[l].result = "ok") <=> (fetches[loads[l].joined].st = "ok")
                      /\ loads[l].result = "ok" => loads[l].from = loads[l].joined

(* C2, web loader (checked under SpecWeb): in every reachable state at most  *)
(* one fetch is in flight for each URL, whatever the interleaving of        *)
(* configure calls, fetch completions and clearImageCache.                  *)
C2_AtMostOneFetchInFlight ==
    \A u \in WebSources : Cardinality(FetchesInFlight(fetches, u)) <= 1

(* C2, Swift loader (checked under SpecNative): at most one data task is on  *)
(* the network for each URL.                                                *)
C2_NativeAtMostOneInFlight ==
    \A u \in RequestSources : Cardinality(InFlight(tasks, u)) <= 1

(* the data-URI prefixes the specification accepts, lower case *)
AcceptedDataPrefixes ==
    {W_data \o W_colon \o W_image \o fmt \o W_base64c : fmt \in Base64Formats}

HasAcceptedDataPrefix(src) == \E p \in AcceptedDataPrefixes : StartsWith(ToLower(src), p)

HasHttpsScheme(src) == ToLower(SchemeOf(src)) = W_https

(* C3 (checked under SpecClassify): both classifiers take a source for a     *)
(* remote URL only if its scheme is https and for base64 only if it starts, *)
(* case-insensitively, with data:image/{png|jpeg|jpg|svg+xml|webp};base64,  *)
(* and everything else is invalid; every http:// URL and every              *)
(* data:image/bmp URI is invalid.                                           *)
C3_ClassifierHttpsOnly ==
    (webClass # "none" /\ nativeClass # "none") =>
        /\ \A class \in {webClass, nativeClass} :
              /\ class = "remote" => HasHttpsScheme(source)
              /\ class = "base64" => HasAcceptedDataPrefix(source)
        /\ StartsWith(source, W_http \o W_slashes) =>
              (webClass = "invalid" /\ nativeClass = "invalid")
        /\ StartsWith(source, W_data \o W_colon \o W_image \o W_bmp) =>
              (webClass = "invalid" /\ nativeClass = "invalid")

(* the sources of the loaders that the specification calls Invalid: neither *)
(* an https URL nor an accepted data URI                                    *)
SpecInvalid == {src \in RequestSources : ~HasHttpsScheme(src) /\ ~HasAcceptedDataPrefix(src)}

(* C4, Swift loader (checked under SpecNative): a source that is Invalid     *)
(* never causes a network request: its request completes at once with no   *)
(* image, it starts no data task, and no data task exists for it.           *)
C4_InvalidNeverFetches ==
    /\ \A r \in DOMAIN requests :
          requests[r].src \in SpecInvalid =>
              /\ requests[r].task = 0
              /\ requests[r].st = "done"
              /\ requests[r].result = "nil"
    /\ \A f \in DOMAIN tasks : tasks[f].url \notin SpecInvalid

(* the sources processImageIcon itself takes for invalid *)
CodeInvalid == {src \in RequestSources : ClassifyNative(src) = "invalid"}

(* C4 restricted to the sources processImageIcon takes for invalid (checked  *)
(* under SpecNative): these never cause a network request.                  *)
C4_CodeInvalidNeverFetches ==
    /\ \A r \in DOMAIN requests :
          requests[r].src \in CodeInvalid =>
              /\ requests[r].task = 0
              /\ requests[r].st = "done"
              /\ requests[r].result = "nil"
    /\ \A f \in DOMAIN tasks : tasks[f].url \notin CodeInvalid

(* C5, web plugin (checked under SpecWeb): a configure call whose items list *)
(* is empty, or that has an item with an empty id, fails: it is never       *)
(* resolved.                                                                *)
C5_EmptyConfigureFails ==
    \A c \in DOMAIN configures :
        (configures[c].items = <<>>
            \/ \E i \in DOMAIN configures[c].items : configures[c].items[i].id = "")
        => configures[c].st # "resolved"

(* ================================================================== *)
(* Claims about the plugin and the overlay (checked under Spec)        *)
(* ================================================================== *)

Applied(op) == lastOp.op = op /\ "noOverlay" \notin lastOp.flags

(* C5, native plugin only: a configure call with an empty items list or an  *)
(* item with an empty id is rejected, is not resolved, and changes neither  *)
(* the overlay's state nor the main queue.                                  *)
C5_NativeRejectCommitsNothing ==
    [][(lastOp'.op = "configure" /\ lastOp'.flags \cap {"empty", "emptyId"} # {})
         => /\ lastOp'.rejects = 1
            /\ lastOp'.resolves = 0
            /\ UNCHANGED <<overlayVars, mainQueue>>]_vars

C5_NativeWitness ==
    /\ lastOp.op = "configure"
    /\ "emptyId" \in lastOp.flags
    /\ overlayVC
    /\ Len(items) = 2

(* C6: a configure call whose items repeat an id is rejected, and the       *)
(* configured ids are pairwise distinct in every reachable state.           *)
C6_DuplicateIdsRejected ==
    /\ (lastOp.op = "configure" /\ "dup" \in lastOp.flags) => lastOp.rejects = 1
    /\ ~HasDuplicateIds(items)

(* C7: applying select with an id that is not configured reports an error   *)
(* to the caller (the call is rejected and never resolved) and leaves the   *)
(* selected id unchanged.                                                   *)
C7_UnknownSelectFails ==
    [][(Applied("applySelect")' /\ "known" \notin lastOp'.flags)
         => /\ lastOp'.rejects = 1
            /\ lastOp'.resolves = 0
            /\ SelectedId' = SelectedId]_vars

(* C8: applying setBadge with an id that is not configured      *)
(* rejects the call and leaves badges, selection and visibility untouched.  *)
C8_UnknownSetBadgeRejected ==
    [][(Applied("applySetBadge")' /\ "known" \notin lastOp'.flags)
         => /\ lastOp'.rejects = 1
            /\ lastOp'.resolves = 0
            /\ ShownBadges' = ShownBadges
            /\ SelectedId' = SelectedId
            /\ hidden' = hidden]_vars

(* C8, what does hold: setBadge with an id that is not configured is ignored: *)
(* call has resolved, it is rejected only when no overlay exists, and the   *)
(* items, every tab's badge, the selection and the visibility are untouched.*)
C8_UnknownSetBadgeIgnored ==
    [][(lastOp'.op = "applySetBadge" /\ "known" \notin lastOp'.flags)
         => /\ lastOp'.resolves = 1
            /\ (lastOp'.rejects = 1) <=> ("noOverlay" \in lastOp'.flags)
            /\ lastOp'.rejects \in {0, 1}
            /\ items' = items
            /\ ShownBadges' = ShownBadges
            /\ SelectedId' = SelectedId
            /\ hidden' = hidden]_vars

C8_Witness ==
    /\ Applied("applySetBadge")
    /\ lastOp.id = UnknownId
    /\ Len(items) = 2
    /\ \E i \in DOMAIN items : ShownBadges[i] # ShownNone

(* C9: once the update of a successful configure has been applied, the      *)
(* selected tab is initialId when that id is configured and the first item  *)
(* otherwise.                                                               *)
C9_InitialSelection ==
    (Applied("update") /\ ~crashed)
        => SelectedId = IF "known" \in lastOp.flags THEN lastOp.id ELSE items[1].id

(* C10: once select with a configured id has been applied, the selected tab *)
(* is that id.                                                              *)
C10_SelectTakesEffect ==
    (Applied("applySelect") /\ "known" \in lastOp.flags) => SelectedId = lastOp.id

(* C11: a "selected" event carrying the id of a tab is notified exactly on   *)
(* a tap of that tab: each tap appends one event with the tapped id, and no *)
(* other step (configure, select, setBadge, show, hide, their blocks on the *)
(* main queue, a render) changes the events.                                *)
C11_SelectedEventOnlyOnTap ==
    [][/\ lastOp'.op = "tap" => events' = Append(events, lastOp'.id)
       /\ lastOp'.op # "tap" => events' = events]_vars

C11_Witness ==
    /\ lastOp.op = "tap"
    /\ events = <<"b">>
    /\ SelectedId = "b"
    /\ nCalls = MaxCalls

(* the badge the overlay that is built shows for a stored badge value *)
DisplayedBadge(badge) == IF variant = "uikit" THEN applyBadge(badge) ELSE BadgeView(badge)

(* C12: once the update of a configure whose initialId is absent or          *)
(* configured has been applied, the items, the shown badges, the selected   *)
(* id and the visibility are those of the new options alone.                *)
C12_ConfigureReplacesWholesale ==
    [][(Applied("update")' /\ ~crashed' /\ lastOp'.id \in IdsOf(items') \cup {Nil})
         => /\ items' = Head1.items
            /\ ShownBadges' = [i \in DOMAIN Head1.items |-> DisplayedBadge(Head1.items[i].badge)]
            /\ SelectedId' = IF lastOp'.id # Nil THEN lastOp'.id ELSE Head1.items[1].id
            /\ Visible' = Head1.visible]_vars

(* C12 for the UIKit overlay alone *)
C12_UIKitReplacesWholesale ==
    [][(variant = "uikit" /\ Applied("update")' /\ ~crashed'
          /\ lastOp'.id \in IdsOf(items') \cup {Nil})
         => /\ items' = Head1.items
            /\ ShownBadges' = [i \in DOMAIN Head1.items |-> DisplayedBadge(Head1.items[i].badge)]
            /\ SelectedId' = IF lastOp'.id # Nil THEN lastOp'.id ELSE Head1.items[1].id
            /\ Visible' = Head1.visible]_vars

(* C13, web plugin (checked under SpecWeb): configure resolves as soon as    *)
(* its items are accepted, without waiting for an icon to load: no          *)
(* configure call is left pending once its synchronous part has run.        *)
C13_ConfigureDoesNotAwaitLoads ==
    \A c \in DOMAIN configures : configures[c].st = "resolved"

(* C13, native plugin (checked under Spec): an accepted configure call is    *)
(* resolved by the call itself, before its block on the main queue has run. *)
C13_NativeResolvesAtOnce ==
    (lastOp.op = "configure" /\ lastOp.rejects = 0) => lastOp.resolves = 1

(* C14 (checked under SpecWeb): no outcome of an icon's load makes configure *)
(* fail: a configure call is never rejected, and once every load it waits   *)
(* for has settled, whatever the results, it is resolved.                   *)
C14_IconFailureNeverFailsConfigure ==
    \A c \in DOMAIN configures :
        /\ configures[c].st \in {"pending", "resolved"}
        /\ (\A l \in configures[c].awaits : loads[l].st = "done")
              => configures[c].st = "resolved"

C14_Witness ==
    \E c \in DOMAIN configures :
        /\ configures[c].st = "resolved"
        /\ \E l \in configures[c].awaits :
              loads[l].result = "error" /\ loads[l].fetch # 0
        /\ \E l \in configures[c].awaits :
              loads[l].result = "error" /\ loads[l].fetch = 0

(* ------------------------------------------------------------------ *)
(* Claims about the icon of one tab                                    *)
(* ------------------------------------------------------------------ *)

(* the icon the host asked for when the imageIcon cannot be had *)
SpecFallback ==
    IF iconItem.systemIcon # Nil THEN SystemImage(iconItem.systemIcon)
    ELSE IF iconItem.image # Nil THEN AssetImage(iconItem.image)
    ELSE EmptyImage

(* C15: when the load of a tab's imageIcon fails, the tab does not show  *)
(* the loaded bitmap; it shows its systemIcon if it has one, otherwise   *)
(* its bundled image asset if it has one, otherwise an empty placeholder *)
C15_FailedIconFallsBack ==
    [][lastIcon' = "fallback" => DisplayedIcon' = SpecFallback]_vars

(* C15 for the UIKit overlay alone: loadFallbackImage follows the chain *)
C15_UIKitFallsBack ==
    [][(lastIcon' = "fallback" /\ iconVariant = "uikit") => DisplayedIcon' = SpecFallback]_vars

C15_UIKitWitness ==
    /\ lastIcon = "fallback"
    /\ iconVariant = "uikit"
    /\ iconItem.imageIcon = "remote"
    /\ iconItem.systemIcon = Nil
    /\ DisplayedIcon = AssetImage("logo")

(* the colour the ring of a tab has to have *)
SpecRingColor ==
    IF isSelected
    THEN IF iconColors.selected # Nil THEN iconColors.selected ELSE "systemBlue"
    ELSE IF iconColors.unselected # Nil THEN iconColors.unselected ELSE "systemGray"

(* C16: a tab with a ring-enabled image icon that shows its bitmap, with *)
(* no load in flight, has the ring in the selected-icon colour when the  *)
(* tab is selected and in the unselected-icon colour when it is not      *)
C16_RingFollowsSelection ==
    (iconItem.ring /\ DisplayedIcon.kind = "bitmap" /\ ~LoadInFlight)
        => DisplayedIcon.ring = SpecRingColor

(* C16 for the SwiftUI view alone *)
C16_SwiftUIRingFollowsSelection ==
    (iconVariant = "swiftui" /\ iconItem.ring /\ DisplayedIcon.kind = "bitmap" /\ ~LoadInFlight)
        => DisplayedIcon.ring = SpecRingColor

(* C16 for the SwiftUI view as long as no two loads overlapped *)
C16_SwiftUISimpleSource ==
    (iconVariant = "swiftui" /\ iconItem.ring /\ iconItem.imageIcon = "base64"
        /\ DisplayedIcon.kind = "bitmap" /\ ~LoadInFlight)
        => DisplayedIcon.ring = SpecRingColor

(* ------------------------------------------------------------------ *)
(* Claims about badges, show and hide                                  *)
(* ------------------------------------------------------------------ *)

(* C17: a tab shows a number as its badge only if the number is above  *)
(* zero, whether the value came through configure or through setBadge  *)
C17_NumericBadgeOnlyPositive ==
    \A i \in DOMAIN ShownBadges : ShownBadges[i].k = "text" => ShownBadges[i].n > 0

(* C17 for the UIKit overlay alone: applyBadge tests n > 0 *)
C17_UIKitBadgeOnlyPositive ==
    variant = "uikit" =>
        \A i \in DOMAIN ShownBadges : ShownBadges[i].k = "text" => ShownBadges[i].n > 0

(* the ids of the tabs in the order the bar shows them *)
ItemOrder == [i \in DOMAIN items |-> items[i].id]

(* C18: setBadge with the id of a configured tab changes the badge of  *)
(* that tab only: the badges of the other tabs, the order of the tabs, *)
(* the selected id and the visibility stay, and no image load starts   *)
C18_SetBadgeTouchesOneTab ==
    [][(Applied("applySetBadge")' /\ "known" \in lastOp'.flags)
        => /\ \E i \in DOMAIN items :
                /\ items[i].id = lastOp'.id
                /\ \A j \in DOMAIN items \ {i} : ShownBadges'[j] = ShownBadges[j]
           /\ DOMAIN ShownBadges' = DOMAIN ShownBadges
           /\ ItemOrder' = ItemOrder
           /\ SelectedId' = SelectedId
           /\ Visible' = Visible
           /\ requests' = requests]_vars

C18_Witness ==
    /\ Applied("applySetBadge")
    /\ lastOp.id = "b"
    /\ ItemOrder = <<"a", "b">>
    /\ ShownBadges = <<ShownNone, ShownText(3)>>

(* C19: show and hide only set the visibility: the items, the selected *)
(* id, the badges and the image cache stay and no image load starts    *)
C19_ShowHideOnlyFlipVisibility ==
    [][(Applied("applyShow")' \/ Applied("applyHide")')
        => /\ Visible' = Applied("applyShow")'
           /\ items' = items
           /\ SelectedId' = SelectedId
           /\ ShownBadges' = ShownBadges
           /\ imageCache' = imageCache
           /\ requests' = requests]_vars

C19_Witness ==
    /\ Applied("applyHide")
    /\ ~Visible
    /\ ItemOrder = <<"a", "b">>
    /\ SelectedId = "b"
    /\ nCalls = MaxCalls

(* ------------------------------------------------------------------ *)
(* Claims about icon colours                                           *)
(* ------------------------------------------------------------------ *)

(* a colour string that is none of #RGB, #RRGGBB, #RRGGBBAA, rgb(), rgba() *)
InvalidColor(c) == c # None /\ ~ValidColor[c]

(* C20: a configure whose selectedIconColor or unselectedIconColor is   *)
(* an invalid string succeeds like the same call without it, logs a     *)
(* warning for that role, and the bar then uses the platform's default  *)
(* colour for that role                                                 *)
C20_InvalidColorFallsBack ==
    \A role \in {"selected", "unselected"} :
        (colorCall.outcome # "none" /\ colorCall.hasItems /\ InvalidColor(colorCall[role]))
            => /\ colorCall.outcome = "resolved"
               /\ role \in colorCall.warnings
               /\ (lastColor = "update" => UsedColor[role] = None)

(* C20, its first part alone: an invalid colour never makes configure fail *)
C20_InvalidColorNeverFails ==
    \A role \in {"selected", "unselected"} :
        (colorCall.outcome # "none" /\ colorCall.hasItems /\ InvalidColor(colorCall[role]))
            => colorCall.outcome = "resolved"

(* C20 where the parser and the validator agree, on an overlay that was  *)
(* not given a colour for the role before                                *)
C20_WebWarns ==
    \A role \in {"selected", "unselected"} :
        (colorPlatform = "web" /\ colorCall.outcome # "none" /\ InvalidColor(colorCall[role]))
            => role \in colorCall.warnings

(* a colour string ColorUtils.parseColor itself turns down *)
RejectedColor(c) == c # None /\ ParsedColor[c] = None

(* C20 for the strings the native parser turns down, UIKit overlay: the *)
(* bar uses the default once the update ran                             *)
C20_UIKitRejectedColorUsesDefault ==
    \A role \in {"selected", "unselected"} :
        (colorPlatform = "uikit" /\ lastColor = "update" /\ RejectedColor(colorCall[role]))
            => role \in colorCall.warnings /\ UsedColor[role] = None

(* the same for the SwiftUI overlay *)
C20_SwiftUIRejectedColorUsesDefault ==
    \A role \in {"selected", "unselected"} :
        (colorPlatform = "swiftui" /\ lastColor = "update" /\ RejectedColor(colorCall[role]))
            => role \in colorCall.warnings /\ UsedColor[role] = None

(* ------------------------------------------------------------------ *)
(* Claims about rendering mode                                         *)
(* ------------------------------------------------------------------ *)

(* C21: every bitmap of an image icon that a tab shows, with or without *)
(* ring, selected or not, is marked for original rendering              *)
C21_BitmapsRenderOriginal ==
    \A img \in {iconImage, selectedImage} :
        img.kind = "bitmap" => img.mode = "alwaysOriginal"

(* C21 for the UIKit overlay alone *)
C21_UIKitBitmapsRenderOriginal ==
    iconVariant = "uikit" =>
        \A img \in {iconImage, selectedImage} :
            img.kind = "bitmap" => img.mode = "alwaysOriginal"

(* C21 for the ringed bitmaps of the SwiftUI view *)
C21_SwiftUIRingedRenderOriginal ==
    (iconVariant = "swiftui" /\ iconImage.kind = "bitmap" /\ iconImage.ring # "none")
        => iconImage.mode = "alwaysOriginal"

(* ------------------------------------------------------------------ *)
(* Claims about the colour utilities                                   *)
(* ------------------------------------------------------------------ *)

(* "#" followed by 3, 6 or 8 hexadecimal digits *)
HexColorForm(str) ==
    /\ Len(str) \in {4, 7, 9}
    /\ str[1] = "#"
    /\ \A i \in 2..Len(str) :
        str[i] \in {"0", "1", "2", "3", "4", "5", "6", "7", "8", "9",
                    "a", "b", "c", "d", "e", "f", "A", "B", "C", "D", "E", "F"}

ChannelsInUnitRange(c) == \A ch \in {c.r, c.g, c.b, c.a} : ch >= 0 /\ ch <= Unit

(* C22: normalizeColor resolves every "#" + 3, 6 or 8 hex digits to     *)
(* channels within [0,1], and rejects every other string of hex-like    *)
(* characters: other lengths, a character that is no hex digit, no "#"  *)
C22_HexResolution ==
    (utilOp = "normalizeColor" /\ utilInput \in HexInputs)
        => IF HexColorForm(utilInput)
           THEN utilResult # None /\ ChannelsInUnitRange(Get(utilResult))
           ELSE utilResult = None

C22_Witness ==
    /\ utilOp = "normalizeColor"
    /\ utilInput = <<"#", "F", "0", "F", "0", "F", "0", "c", "c">>
    /\ utilResult = Some(Rgba(Div255(240 * Unit), Div255(240 * Unit), Div255(240 * Unit), 8000))

C22_WitnessRejected ==
    /\ utilOp = "normalizeColor"
    /\ utilInput = <<"#", "F", "F", "c", "0">>
    /\ utilResult = None

(* the same statement about the native ColorUtils.parseColor; it does   *)
(* not hold: parseHexColor ignores a pair of alpha digits it cannot read *)
C22_NativeHexResolution ==
    (utilOp = "parseColor" /\ utilInput \in HexInputs)
        => IF HexColorForm(utilInput)
           THEN utilResult # None
           ELSE utilResult = None

(* what the native parser does keep: it resolves every "#" + 3, 6 or 8   *)
(* hex digits to channels within [0,1], and rejects every other length   *)
C22_NativeResolvesValidHex ==
    (utilOp = "parseColor" /\ utilInput \in HexInputs)
        => /\ HexColorForm(utilInput) =>
                /\ utilResult # None
                /\ \A i \in 1..4 : Get(utilResult)[i] >= 0 /\ Get(utilResult)[i] <= Unit
           /\ (utilInput # <<>> /\ utilInput[1] = "#" /\ Len(utilInput) \notin {4, 7, 9})
                => utilResult = None

(* the rgb()/rgba() strings with three components in [0,255] and either *)
(* no alpha or an alpha in [0,1]                                         *)
RgbaInRangeValues ==
    LET comps == RgbaComponents \ {<<"2", "5", "6">>}
        alphas == {<<"0">>, <<"1">>, <<"0", ".", "8">>}
    IN  [1..3 -> comps] \cup {c \o <<a>> : c \in [1..3 -> comps], a \in alphas}

RgbaInRangeInputs ==
    {name \o <<"(">> \o Join(values, sep) \o <<")">> :
        name \in RgbaNames, values \in RgbaInRangeValues, sep \in RgbaSeparators}

RgbaWithoutAlpha ==
    {name \o <<"(">> \o Join(values, sep) \o <<")">> :
        name \in RgbaNames, values \in [1..3 -> RgbaComponents], sep \in RgbaSeparators}

AlphaOf(result) == IF utilOp = "parseColor" THEN result[4] ELSE result.a

(* C23: normalizeColor and the native parseColor resolve an rgb()/rgba() *)
(* string exactly when it has three components in [0,255] and no alpha   *)
(* or an alpha in [0,1]; a missing alpha resolves to 1; a component out  *)
(* of range (256, alpha 1.5, alpha -0.1) or a wrong number of values     *)
(* gives no colour                                                       *)
C23_RgbaResolution ==
    (utilOp \in {"normalizeColor", "parseColor"} /\ utilInput \in RgbaInputs)
        => /\ utilResult # None <=> utilInput \in RgbaInRangeInputs
           /\ (utilResult # None /\ utilInput \in RgbaWithoutAlpha)
                => AlphaOf(Get(utilResult)) = Unit

C23_Witness ==
    /\ utilOp = "parseColor"
    /\ utilInput = <<"R", "G", "B", "A", "(", "2", "5", "5", ",", " ", "8", "7", ",", " ",
                     "0", ",", " ", "0", ".", "8", ")">>
    /\ utilResult = Some(UIColor(Unit, Div255(87 * Unit), 0, 8000))

C23_WitnessOutOfRange ==
    /\ utilOp = "normalizeColor"
    /\ utilInput = <<"r", "g", "b", "a", "(", "2", "5", "5", ",", "8", "7", ",",
                     "0", ",", "1", ".", "5", ")">>
    /\ utilResult = None

(* the byte written by the k-th pair of digits of a valid hex colour,   *)
(* a 3-digit colour standing for its digits written twice                *)
HexDigitValue(c) ==
    CASE c \in {"0"} -> 0 [] c \in {"1"} -> 1 [] c \in {"2"} -> 2 [] c \in {"3"} -> 3
      [] c \in {"4"} -> 4 [] c \in {"5"} -> 5 [] c \in {"6"} -> 6 [] c \in {"7"} -> 7
      [] c \in {"8"} -> 8 [] c \in {"9"} -> 9 [] c \in {"a", "A"} -> 10
      [] c \in {"b", "B"} -> 11 [] c \in {"c", "C"} -> 12 [] c \in {"d", "D"} -> 13
      [] c \in {"e", "E"} -> 14 [] c \in {"f", "F"} -> 15

ByteOf(h, k) ==
    IF Len(h) = 4 THEN 17 * HexDigitValue(h[k + 1])
    ELSE 16 * HexDigitValue(h[2 * k]) + HexDigitValue(h[2 * k + 1])

C24_WitnessShortForm ==
    /\ utilOp = "hexToRgba"
    /\ utilInput = <<"#", "F", "c", "0">>
    /\ utilResult = Some(<<"r", "g", "b", "a", "(", "2", "5", "5", ",", " ", "2", "0", "4", ",", " ",
                           "0", ",", " ", "1", ")">>)

(* ------------------------------------------------------------------ *)
(* Claims about superseded and re-entrant resolutions                  *)
(* ------------------------------------------------------------------ *)

(* C25: the completion of a load that a selection change has superseded *)
(* is discarded: when the SwiftUI view's main queue runs the block of a *)
(* load requested under a selection that is no longer the current one,  *)
(* the icon and its ring stay as they are, or at least come out as the  *)
(* current selection asks                                               *)
C25_StaleCompletionDiscarded ==
    [][(iconVariant = "swiftui" /\ lastIcon' = "setImage" /\ iconQueue # <<>>
            /\ Len(iconQueue') < Len(iconQueue))
        => \/ Head(iconQueue).sel = isSelected
           \/ iconImage' = iconImage
           \/ iconImage' = RingedImage(iconItem, iconColors, isSelected)]_vars

(* the same on the web: while imageLoadPromises holds a newer load for  *)
(* a tab id, the callbacks of an older load of that id leave the tab's  *)
(* loading state alone                                                  *)
C25_WebStaleLoadDiscarded ==
    [][\A l \in DOMAIN loads :
        (loads[l].st = "await" /\ loads'[l].st = "done"
            /\ imageLoadPromises[loads[l].id] \notin {0, l})
        => tabStates'[loads[l].id] = tabStates[loads[l].id]]_vars

(* the loads of tab id `id` that have not settled *)
LoadsInFlightOf(id) == {l \in DOMAIN loads : loads[l].id = id /\ loads[l].st = "await"}

(* the configure call of this step asks for the image of tab id `id` *)
ConfigureAsksFor(id) ==
    /\ lastWeb' = "configure"
    /\ Len(configures') = Len(configures) + 1
    /\ \E i \in DOMAIN configures'[Len(configures')].items :
        LET item == configures'[Len(configures')].items[i] IN
        item.id = id /\ item.image # NoIcon

(* C26: a configure that asks for the image of a tab id whose load is   *)
(* in flight waits for that load and starts no second load for the id   *)
C26_ReentrantRequestAttaches ==
    [][\A id \in WebIds :
        (ConfigureAsksFor(id) /\ LoadsInFlightOf(id) # {})
        => /\ \A l \in DOMAIN loads' : loads'[l].id = id => l \in DOMAIN loads
           /\ configures'[Len(configures')].awaits \cap LoadsInFlightOf(id) # {}]_vars

(* the same as long as clearImageCache has not been called: it holds *)
C26_AttachesWithoutClear ==
    [][\A id \in WebIds :
        (ConfigureAsksFor(id) /\ LoadsInFlightOf(id) # {} /\ webClears = 0)
        => /\ \A l \in DOMAIN loads' : loads'[l].id = id => l \in DOMAIN loads
           /\ configures'[Len(configures')].awaits \cap LoadsInFlightOf(id) # {}]_vars

C26_AttachedWitness ==
    /\ webClears = 0
    /\ Len(configures) = 2
    /\ \E l \in DOMAIN loads :
        /\ loads[l].st = "await"
        /\ l \in configures[1].awaits \cap configures[2].awaits
        /\ \A k \in DOMAIN loads : loads[k].id = loads[l].id => k = l

(* ------------------------------------------------------------------ *)
(* Claims about the image cache                                        *)
(* ------------------------------------------------------------------ *)

(* C27: a request for a url with no fetch in flight is answered from    *)
(* the cache exactly when the cache holds an entry for the url younger  *)
(* than the retention window, and starts a fetch otherwise              *)
C27_CacheServesOnlyFresh ==
    (lastCache.op \in {"load", "poll"} /\ ~lastCache.inflight)
        => IF lastCache.age # None /\ Get(lastCache.age) < CACHE_DURATION
           THEN lastCache.how = "cache"
           ELSE lastCache.how = "fetch"

(* the same of ImageManager alone: it holds *)
C27_WebCacheServesOnlyFresh ==
    cachePlatform = "web" => C27_CacheServesOnlyFresh

(* an entry that has reached the window, found by a request and not served *)
C27_WebExpiredWitness ==
    /\ cachePlatform = "web"
    /\ lastCache.op = "load"
    /\ lastCache.age = Some(CACHE_DURATION)
    /\ lastCache.how = "fetch"

(* a response the cache may admit: a success status, one of the five    *)
(* image types (in either case) and a body of at most 5,242,880 bytes   *)
Admissible(response) ==
    /\ response.status \in 200..299
    /\ response.contentType # None
    /\ ToLower(Get(response.contentType)) \in
            {W_image \o W_png, W_image \o W_jpeg, W_image \o W_jpg,
             W_image \o W_svgxml, W_image \o W_webp}
    /\ response.size <= 5242880

(* C28: a settled fetch changes the cache only if its response has a    *)
(* success status, a supported Content-Type and at most 5,242,880       *)
(* bytes; any other response ends in an error and leaves the cache as   *)
(* it was                                                               *)
C28_OnlyValidResponsesAdmitted ==
    [][lastCache'.op = "settle"
        => \/ Admissible(lastCache'.response)
           \/ ~lastCache'.admitted /\ entries' = entries]_vars

(* the same of ImageManager alone, which also admits every such         *)
(* response: it holds                                                   *)
C28_WebAdmission ==
    [][(cachePlatform = "web" /\ lastCache'.op = "settle")
        => IF Admissible(lastCache'.response)
           THEN /\ lastCache'.admitted
                /\ \E f \in created' \ created :
                      entries'[lastCache'.url] = Entry(clock, f)
           ELSE ~lastCache'.admitted /\ entries' = entries]_vars

(* a body of exactly 5,242,880 bytes is cached, one more byte is not *)
C28_WebBoundaryAdmitted ==
    /\ cachePlatform = "web"
    /\ lastCache.op = "settle"
    /\ lastCache.response.size = 5242880
    /\ lastCache.admitted
    /\ entries[lastCache.url] # None

C28_WebBoundaryRejected ==
    /\ cachePlatform = "web"
    /\ lastCache.op = "settle"
    /\ lastCache.response = Response(200, Some(W_image \o W_png), 5242881, TRUE)
    /\ ~lastCache.admitted

(* the object URLs the cache entries hold *)
HeldObjectUrls == {Get(entries[u]).objectUrl : u \in {x \in CacheUrls : entries[x] # None}}

(* C29: on the web the object URLs created and not yet revoked are      *)
(* exactly those held by the cache entries, whatever was replaced,      *)
(* swept or cleared                                                     *)
C29_NoObjectUrlLeak ==
    cachePlatform = "web" => created \ revoked = HeldObjectUrls /\ revoked \subseteq created

(* an entry replaced by a second fetch of its url: the first object URL *)
(* is revoked, the second is held                                       *)
C29_Witness ==
    /\ cachePlatform = "web"
    /\ nCacheClears = 0
    /\ transfers = <<Fetch(Url_A, "done"), Fetch(Url_A, "done")>>
    /\ created = {1, 2}
    /\ revoked = {1}
    /\ HeldObjectUrls = {2}

(* an expired entry swept when another url is cached *)
C29_WitnessSwept ==
    /\ cachePlatform = "web"
    /\ nCacheClears = 0
    /\ transfers = <<Fetch(Url_A, "done"), Fetch(Url_B, "done")>>
    /\ entries[Url_A] = None
    /\ created = {1, 2}
    /\ revoked = {1}

(* a fetch that ends after clearCache: its object URL is held by the    *)
(* cleared cache                                                        *)
C29_WitnessCleared ==
    /\ cachePlatform = "web"
    /\ nCacheClears = 1
    /\ created = {1, 2}
    /\ revoked = {1}
    /\ HeldObjectUrls = {2}

(* ------------------------------------------------------------------ *)
(* Claims about clearCache during a fetch                              *)
(* ------------------------------------------------------------------ *)

(* C30: clearCache does not cut a waiting caller loose from the fetch   *)
(* it waits for: while that fetch is on the network, the caller's retry *)
(* keeps waiting for it and starts no fetch of its own                  *)
C30_WaitersKeepTheirFetch ==
    [][\A r \in DOMAIN requests :
        (requests[r].st = "poll" /\ requests[r].joined # 0
            /\ tasks[requests[r].joined].st = "net")
        => requests'[r].task = 0]_vars

(* what clearCache leaves intact in the Swift loader: a data task that  *)
(* ends well caches its image, cleared or not, and no completion        *)
(* handler runs twice                                                   *)
C30_NativeFetchStillCaches ==
    [][/\ \A r \in DOMAIN requests' : requests'[r].completions <= 1
       /\ \A f \in DOMAIN tasks :
            (clears >= 1 /\ tasks[f].st = "net" /\ tasks'[f].st = "defer"
                /\ tasks'[f].result = "image")
            => imageCache'[tasks[f].url] = f]_vars

(* the web loader after a clearImageCache: a fetch that settles hands   *)
(* its result to every load waiting for it, once, and a good result is  *)
(* put into the cache                                                   *)
C30_WebFetchSurvivesClear ==
    [][\A f \in DOMAIN fetches :
        (webClears >= 1 /\ fetches[f].st = "net" /\ fetches'[f].st # "net")
        => /\ \A l \in DOMAIN loads :
                (loads[l].st = "await" /\ loads[l].fetch = f)
                => /\ loads'[l].st = "done"
                   /\ loads'[l].result = IF fetches'[f].st = "ok" THEN "ok" ELSE "error"
                   /\ loads'[l].from = IF fetches'[f].st = "ok" THEN f ELSE 0
           /\ \A l \in DOMAIN loads : loads[l].st = "done" => loads'[l] = loads[l]
           /\ fetches'[f].st = "ok" => cache'[fetches[f].url] = f]_vars

(* a fetch started before clearImageCache and settled after it, its     *)
(* blob in the cache and its load served                                *)
C30_WebWitness ==
    /\ webClears = 1
    /\ lastWeb = "fetchAndCacheImage"
    /\ Len(fetches) = 1
    /\ fetches[1].st = "ok"
    /\ cache[fetches[1].url] = 1
    /\ \E l \in DOMAIN loads : loads[l].fetch = 1 /\ loads[l].st = "done" /\ loads[l].from = 1

(* ------------------------------------------------------------------ *)
(* Claims about the per-tab loading state on the web                   *)
(* ------------------------------------------------------------------ *)

(* the moves of one tab's loading state the state machine allows *)
AllowedMove(from, to) ==
    \/ from = "none" /\ to = "loading"
    \/ from = "loading" /\ to \in {"loaded", "error"}
    \/ from \in {"loaded", "error"} /\ to = "loading"

(* the step is a configure that made a load for tab t, whose state      *)
(* went through "loading" before the load's callbacks ran               *)
LoadedWithinConfigure(t) ==
    /\ lastWeb' = "configure"
    /\ \E l \in DOMAIN loads' : l \notin DOMAIN loads /\ loads'[l].id = t

(* C31: a tab's loading state moves only along none -> loading,         *)
(* loading -> loaded, loading -> error, loaded / error -> loading       *)
(* (and back to none when clearImageCache empties the map): never from  *)
(* none to loaded or error, never between loaded and error              *)
C31_StateMachineMoves ==
    [][\A t \in WebIds :
        tabStates'[t] # tabStates[t]
        => \/ AllowedMove(tabStates[t], tabStates'[t])
           \/ LoadedWithinConfigure(t)
           \/ lastWeb' = "clearImageCache" /\ tabStates'[t] = "none"]_vars

(* the same as long as clearImageCache has not been called: it holds *)
C31_MovesWithoutClear ==
    [][\A t \in WebIds :
        (webClears = 0 /\ tabStates'[t] # tabStates[t])
        => \/ AllowedMove(tabStates[t], tabStates'[t])
           \/ LoadedWithinConfigure(t)
           \/ lastWeb' = "clearImageCache" /\ tabStates'[t] = "none"]_vars

(* the part of it about loaded and error alone: a completed fetch never *)
(* turns a loaded tab into a failed one or back; it does not hold       *)
C31_NoJumpBetweenLoadedAndError ==
    [][\A t \in WebIds :
        lastWeb' = "fetchAndCacheImage"
        => ~(tabStates[t] = "loaded" /\ tabStates'[t] = "error")
           /\ ~(tabStates[t] = "error" /\ tabStates'[t] = "loaded")]_vars

(* the fetch that settles in this step *)
SettledNow(f) == f \in DOMAIN fetches /\ fetches[f].st = "net" /\ fetches'[f].st # "net"

(* C32: tabs resolve independently: when a fetch settles, only the tabs *)
(* whose load awaits that very fetch, for their own image, change state,*)
(* each to loaded or error by that fetch's outcome; every other load    *)
(* and every other tab stays as it is, whichever fetch ends first and   *)
(* whether it fails or not                                              *)
C32_TabsResolveIndependently ==
    [][lastWeb' = "fetchAndCacheImage"
        => /\ \A t \in WebIds :
                tabStates'[t] # tabStates[t]
                => \E l \in DOMAIN loads :
                    /\ loads[l].id = t /\ loads[l].st = "await"
                    /\ SettledNow(loads[l].fetch)
                    /\ fetches[loads[l].fetch].url = loads[l].image
                    /\ tabStates'[t] = IF fetches'[loads[l].fetch].st = "ok"
                                       THEN "loaded" ELSE "error"
           /\ \A l \in DOMAIN loads :
                ~SettledNow(loads[l].fetch) => loads'[l] = loads[l]]_vars

(* the second tab's fetch ended first, and failed: the first tab is     *)
(* still loading                                                        *)
C32_Witness ==
    /\ lastWeb = "fetchAndCacheImage"
    /\ fetches = <<Fetch(Url_A, "net"), Fetch(Url_B, "failed")>>
    /\ tabStates["a"] = "loading"
    /\ tabStates["b"] = "error"

(* ... and the first tab then loads as if the second had not failed *)
C32_WitnessBothSettled ==
    /\ fetches = <<Fetch(Url_A, "ok"), Fetch(Url_B, "failed")>>
    /\ tabStates["a"] = "loaded"
    /\ tabStates["b"] = "error"
    /\ webClears = 0

(* the outcome of a load by its own source alone *)
OwnOutcome(l) ==
    IF loads[l].fetch = 0 THEN (IF WebClassOf[loads[l].image] = "base64" \/ loads[l].from # 0
                                THEN "loaded" ELSE "error")
    ELSE IF fetches[loads[l].fetch].st = "ok" THEN "loaded" ELSE "error"

(* with no clearImageCache, a tab with nothing in flight shows the      *)
(* outcome of its last load, which its own source decides               *)
C32_FinalStateByOwnSource ==
    \A t \in WebIds :
        (webClears = 0 /\ imageLoadPromises[t] = 0 /\ \E l \in DOMAIN loads : loads[l].id = t)
        => LET last == CHOOSE l \in DOMAIN loads :
                          loads[l].id = t /\ \A k \in DOMAIN loads : loads[k].id = t => k <= l
           IN  tabStates[t] = OwnOutcome(last)

(* the Swift loader's side of it: a data task's handler changes the     *)
(* request that started it and the cache entry of its own url, nothing  *)
(* of any other request or url                                          *)
C32_NativeTasksIndependent ==
    [][lastLoad' = "TaskHandler"
        => \E f \in DOMAIN tasks :
            /\ tasks[f].st = "net" /\ tasks'[f].st = "defer"
            /\ \A r \in DOMAIN requests : requests[r].task # f => requests'[r] = requests[r]
            /\ \A u \in RequestSources : u # tasks[f].url => imageCache'[u] = imageCache[u]]_vars

(* ------------------------------------------------------------------ *)
(* C33 - the canvas of a ringed icon                                   *)
(* ------------------------------------------------------------------ *)

(* the canvas, the place of the icon and the stroke the claim gives for *)
(* a ring of width w around an image of the given size                  *)
RingAsSpecified(size, w, d) ==
    LET grow == RatMul(Whole(2), RatAdd(w, w)) IN
    /\ d.canvas.width = RatAdd(size.width, grow)
    /\ d.canvas.height = RatAdd(RatAdd(size.height, grow), Whole(2))
    /\ d.imageRect = CGRect(RatMul(Whole(2), w), RatMul(Whole(2), w), size.width, size.height)
    /\ d.stroke = (IF size.width = size.height THEN "ellipse" ELSE "roundedRect")

(* C33: adding a ring of width w to an icon of size W x H yields a      *)
(* canvas of W + 2(w + w) by H + 2(w + w) + 2 with the icon drawn at    *)
(* (2w, 2w), stroked as an ellipse when W = H and as a rounded          *)
(* rectangle otherwise                                                  *)
C33_RingCanvas ==
    lastDraw.op = "ring" => RingAsSpecified(lastDraw.in, ringWidth, lastDraw.out)

(* ImageUtils.addEnhancedRingToImage, which the SwiftUI overlay calls,  *)
(* draws exactly that                                                   *)
C33_EnhancedRingCanvas ==
    (lastDraw.op = "ring" /\ geomVariant = "swiftui")
    => RingAsSpecified(lastDraw.in, ringWidth, lastDraw.out)

(* a 30 x 30 icon with a ring of 3: 42 x 44, the icon at (6, 6), an ellipse *)
C33_EnhancedWitness ==
    /\ lastDraw.op = "ring" /\ geomVariant = "swiftui" /\ ringWidth = Whole(3)
    /\ lastDraw.in = CGSize(Whole(30), Whole(30))
    /\ lastDraw.out.canvas = CGSize(Whole(42), Whole(44))
    /\ lastDraw.out.imageRect = CGRect(Whole(6), Whole(6), Whole(30), Whole(30))
    /\ lastDraw.out.stroke = "ellipse"

(* the UIKit overlay's own addRingToImage leaves no spacer and no       *)
(* padding: the canvas is W + 2w by H + 2w and the icon sits at (w, w)  *)
C33_UIKitRingCanvas ==
    (lastDraw.op = "ring" /\ geomVariant = "uikit")
    => /\ lastDraw.out.canvas = CGSize(RatAdd(lastDraw.in.width, RatMul(Whole(2), ringWidth)),
                                       RatAdd(lastDraw.in.height, RatMul(Whole(2), ringWidth)))
       /\ lastDraw.out.imageRect.x = ringWidth
       /\ lastDraw.out.imageRect.y = ringWidth

(* both ring functions choose the stroke by the aspect of the image     *)
C33_StrokeByAspect ==
    lastDraw.op = "ring"
    => (lastDraw.out.stroke = "ellipse" <=> lastDraw.in.width = lastDraw.in.height)

(* a 2 x 3 image gets a rounded rectangle *)
C33_RoundedWitness ==
    /\ lastDraw.op = "ring"
    /\ lastDraw.in = CGSize(Whole(2), Whole(3))
    /\ lastDraw.out.stroke = "roundedRect"
    /\ lastDraw.out.cornerRadius = <<1, 5>>

(* ------------------------------------------------------------------ *)
(* C34 - size 'fit' in a 24 x 24 target                                *)
(* ------------------------------------------------------------------ *)

(* the image drawn into rect r lies in the canvas of side t inset by    *)
(* pad, scaled by one factor, touching the inset box on its longer      *)
(* axis, and centred                                                    *)
FittedInto(size, r, t, pad) ==
    LET lo == pad
        hi == RatSub(t, pad)
        right == RatAdd(r.x, r.width)
        bottom == RatAdd(r.y, r.height)
    IN  /\ RatDiv(r.width, size.width) = RatDiv(r.height, size.height)
        /\ RatLeq(lo, r.x) /\ RatLeq(lo, r.y) /\ RatLeq(right, hi) /\ RatLeq(bottom, hi)
        /\ IF RatLeq(size.height, size.width)
           THEN r.x = lo /\ right = hi
           ELSE r.y = lo /\ bottom = hi
        /\ RatAdd(r.x, right) = t
        /\ RatAdd(r.y, bottom) = t

C34_WitnessTall ==
    /\ lastDraw.op = "style" /\ lastDraw.mode = "fit" /\ geomVariant = "uikit"
    /\ lastDraw.in = CGSize(Whole(50), Whole(100))
    /\ lastDraw.out.imageRect = CGRect(Whole(8), Whole(4), Whole(8), Whole(16))

(* ImageUtils of the SwiftUI overlay runs the same function in a target *)
(* of 20 x 20: the same inset of 4 in the smaller canvas, and an        *)
(* unknown size mode is treated as 'fit'                                *)
C34_FitInAnyTarget ==
    (lastDraw.op = "style" /\ lastDraw.mode \in {"fit", "auto"})
    => /\ lastDraw.out.canvas = targetSize(geomVariant)
       /\ FittedInto(lastDraw.in, lastDraw.out.imageRect,
                     targetSize(geomVariant).width, Whole(4))

(* ------------------------------------------------------------------ *)
(* C35 - every plugin call is completed exactly once                   *)
(* ------------------------------------------------------------------ *)

(* the steps of a plugin call: the method itself and its block on the   *)
(* main queue; lastOp counts the completions the call has had so far    *)
CallSteps ==
    {"configure", "show", "hide", "select", "setBadge",
     "update", "applyShow", "applyHide", "applySelect", "applySetBadge"}

(* C35: every plugin call is completed exactly once, by a resolve or by *)
(* a reject and never both, also when show, hide, select or setBadge is *)
(* issued before any configure, when no overlay exists                  *)
C35_CompletedExactlyOnce ==
    lastOp.op \in CallSteps => lastOp.resolves + lastOp.rejects = 1

(* what does hold: a call is resolved at most once and rejected at most *)
(* once, a call rejected by the method itself is never resolved, and    *)
(* the second completion comes only from a block that finds no overlay  *)
C35_TwiceOnlyWithoutOverlay ==
    lastOp.op \in CallSteps
    => /\ lastOp.resolves \in {0, 1} /\ lastOp.rejects \in {0, 1}
       /\ lastOp.resolves + lastOp.rejects >= 1
       /\ (lastOp.resolves + lastOp.rejects = 2) <=> ("noOverlay" \in lastOp.flags)

(* select run with an overlay in place: resolved once, never rejected *)
C35_WitnessOnce ==
    /\ lastOp.op = "applySelect" /\ overlayVC
    /\ lastOp.resolves = 1 /\ lastOp.rejects = 0

(* show before any configure: resolved by the method, rejected by its block *)
C35_WitnessTwice ==
    /\ lastOp.op = "applyShow" /\ ~overlayVC
    /\ lastOp.resolves = 1 /\ lastOp.rejects = 1

(* ------------------------------------------------------------------ *)
(* C36 - the selected id is the id of one configured item              *)
(* ------------------------------------------------------------------ *)

(* an update has been applied and the items are on the bar *)
Configured == overlayVC /\ ~crashed /\ items # <<>>

(* the items that carry the id shown as selected *)
SelectedItems == {i \in DOMAIN items : items[i].id = SelectedId}

(* C36: in every state after a successful configure, through any        *)
(* sequence of configure, select, setBadge, show, hide and taps, the    *)
(* selected id is the id of exactly one currently configured item       *)
C36_SelectedIsOneConfiguredItem ==
    Configured => Cardinality(SelectedItems) = 1

(* the UIKit overlay keeps it: its selection is an item of the bar, and *)
(* update and select look the id up                                     *)
C36_UIKitSelectedIsOneConfiguredItem ==
    (Configured /\ variant = "uikit") => Cardinality(SelectedItems) = 1

(* UIKit: select("b") on a bar of a and b selects b; a configure of a  *)
(* alone then leaves a selected                                         *)
C36_UIKitWitness ==
    /\ Configured /\ variant = "uikit"
    /\ lastOp.op = "applySelect" /\ IdsOf(items) = {"a", "b"}
    /\ SelectedId = "b"

C36_UIKitWitnessReplaced ==
    /\ Configured /\ variant = "uikit"
    /\ lastOp.op = "update" /\ IdsOf(items) = {"a"}
    /\ SelectedId = "a"
    /\ nCalls >= 2

(* the SwiftUI overlay shows an id no item carries *)
C36_SwiftUIStaleSelection ==
    (Configured /\ variant = "swiftui") => SelectedId \in IdsOf(items)

(* ------------------------------------------------------------------ *)
(* C37 - processImageIcon calls its completion handler exactly once    *)
(* ------------------------------------------------------------------ *)

(* the Swift loader when every started data task completes and the     *)
(* main queue runs the blocks handed to it: the completion handler of  *)
(* a task is called, its defer runs, and asyncAfter and async blocks   *)
(* are run                                                             *)
NativeFairness ==
    /\ WF_vars(TaskHandler)
    /\ WF_vars(TaskDefer)
    /\ WF_vars(PollRetry)
    /\ WF_vars(MainCompletion)

SpecNativeFair == InitNative /\ [][NativeNext]_vars /\ NativeFairness

C37_AtMostOnce ==
    \A r \in DOMAIN requests :
        /\ requests[r].completions <= 1
        /\ (requests[r].completions = 1) <=> (requests[r].st = "done")

(* unless a racing access to the static dictionaries traps, every call  *)
(* gets its completion                                                  *)
C37_OnceUnlessTrapped ==
    \A r \in 1..MaxRequests :
        (r \in DOMAIN requests)
            ~> (trapped \/ (r \in DOMAIN requests /\ requests[r].completions = 1))

(* a call that polled behind another call's fetch and was then served   *)
(* from the cache                                                       *)
C37_WitnessPolled ==
    \E r \in DOMAIN requests :
        /\ requests[r].joined # 0 /\ requests[r].task = 0
        /\ requests[r].st = "done" /\ requests[r].completions = 1
        /\ requests[r].result = "image"

(* the trap leaves a polling call without its completion for good *)
C37_WitnessTrapped ==
    /\ trapped
    /\ \E r \in DOMAIN requests : requests[r].st = "poll" /\ requests[r].completions = 0

(* ------------------------------------------------------------------ *)
(* C38 - every load settles and leaves the in-flight maps empty        *)
(* ------------------------------------------------------------------ *)

(* the web loader when every started fetch completes; the host          *)
(* configures tabs with icons from two urls and an invalid source       *)
FairSources == {Url_A, Url_B, Src_Bmp}

webConfigureIcons ==
    /\ webConfigure
    /\ LET its == configures'[Len(configures')].items IN
         /\ its # <<>>
         /\ \A i \in DOMAIN its : its[i].image \in FairSources

WebFairNext ==
    \/ webConfigureIcons
    \/ fetchAndCacheImage
    \/ clearImageCache

SpecWebFair == InitWeb /\ [][WebFairNext]_vars /\ WF_vars(fetchAndCacheImage)

(* no load is waiting for a fetch (the callbacks of the others have run) *)
AllLoadsSettled == \A l \in DOMAIN loads : loads[l].st = "done"

InFlightMapsEmpty ==
    /\ \A t \in WebIds : imageLoadPromises[t] = 0
    /\ \A u \in WebSources : loadingPromises[u] = 0

(* C38: if every started fetch eventually completes, every tab that     *)
(* enters loading eventually reaches loaded or error, and once all      *)
(* loads have settled imageLoadPromises and loadingPromises are empty,  *)
(* also when clearImageCache or a further configure is interleaved      *)
C38_LoadsSettleAndMapsEmpty ==
    /\ \A t \in WebIds :
           (tabStates[t] = "loading") ~> (tabStates[t] \in {"loaded", "error"})
    /\ [](AllLoadsSettled => InFlightMapsEmpty)

(* a clearImageCache and a second configure while the first fetch was   *)
(* in flight: both loads of tab a have settled and the maps are empty   *)
C38_Witness ==
    /\ webClears = 1 /\ Len(configures) = 2
    /\ \E l1, l2 \in DOMAIN loads :
          /\ l1 < l2 /\ loads[l1].id = "a" /\ loads[l2].id = "a"
          /\ loads[l1].owner /\ loads[l2].owner
    /\ AllLoadsSettled
    /\ InFlightMapsEmpty
    /\ tabStates["a"] \in {"loaded", "error"}

(* every fetch in flight has a load waiting for it, so that its end is  *)
(* the end of a load                                                    *)
C38_FetchesHaveWaiters ==
    \A f \in DOMAIN fetches : fetches[f].st = "net" => WaitingFor(f) # {}

(* a tab is loading only while a load for it is waiting *)
C38_LoadingHasLoadInFlight ==
    \A t \in WebIds :
        tabStates[t] = "loading"
        => \E l \in DOMAIN loads : loads[l].id = t /\ loads[l].st = "await"

(* ------------------------------------------------------------------ *)
(* C39 - loading states refer to tabs of the current configuration     *)
(* ------------------------------------------------------------------ *)

(* the ids of the items with an imageIcon in the most recent configure *)
CurrentIconIds ==
    LET its == configures[Len(configures)].items IN
    {its[i].id : i \in {j \in DOMAIN its : its[j].image # NoIcon}}

(* the most recent configure call has completed *)
LastConfigureCompleted ==
    configures # <<>> /\ configures[Len(configures)].st = "resolved"

(* C39: after a configure completes, getImageLoadingState(id) is        *)
(* undefined for every id that is not an item with an imageIcon in the  *)
(* most recent configure, even if an earlier configuration had loaded   *)
(* an icon under that id                                                *)
C39_StatesOfCurrentTabsOnly ==
    LastConfigureCompleted
    => \A t \in WebIds : t \notin CurrentIconIds => tabStates[t] = "none"

(* what holds: after the first configure the recorded states are those  *)
(* of its own tabs, each of them settled                                *)
C39_FirstConfigureStates ==
    (LastConfigureCompleted /\ Len(configures) = 1 /\ webClears = 0)
    => \A t \in WebIds :
          IF t \in CurrentIconIds THEN tabStates[t] \in {"loaded", "error"}
          ELSE tabStates[t] = "none"

C39_FirstConfigureWitness ==
    /\ LastConfigureCompleted /\ Len(configures) = 1 /\ webClears = 0
    /\ CurrentIconIds = {"a"}
    /\ tabStates["a"] = "loaded" /\ tabStates["b"] = "none"

(* a second configure without tab b leaves b's state as it was: only    *)
(* clearImageCache forgets it                                           *)
C39_StaleStateWitness ==
    /\ LastConfigureCompleted /\ Len(configures) = 2 /\ webClears = 0
    /\ CurrentIconIds = {"a"}
    /\ tabStates["b"] = "loaded"

(* ------------------------------------------------------------------ *)
(* C40 - native operations take effect in the order of their calls     *)
(* ------------------------------------------------------------------ *)

(* the block a resolved call hands to the main queue, and the step that *)
(* runs a block                                                         *)
BlockOfCall == [configure |-> "update", show |-> "show", hide |-> "hide",
                select |-> "select", setBadge |-> "setBadge"]
StepOfBlock == [update |-> "update", show |-> "applyShow", hide |-> "applyHide",
                select |-> "applySelect", setBadge |-> "applySetBadge"]
RunSteps == {"update", "applyShow", "applyHide", "applySelect", "applySetBadge"}

(* a call that resolves puts its block behind every block still waiting *)
CallEnqueuesLast ==
    (lastOp'.op \in DOMAIN BlockOfCall /\ lastOp'.resolves = 1)
    => /\ Len(mainQueue') = Len(mainQueue) + 1
       /\ SubSeq(mainQueue', 1, Len(mainQueue)) = mainQueue
       /\ mainQueue'[Len(mainQueue')].op = BlockOfCall[lastOp'.op]
       /\ (lastOp'.op \in {"select", "setBadge"})
             => (mainQueue'[Len(mainQueue')].id = lastOp'.id)

(* nothing else touches the queue: no block is dropped or overtaken *)
OthersLeaveQueue ==
    (lastOp'.op \notin RunSteps /\ ~(lastOp'.op \in DOMAIN BlockOfCall /\ lastOp'.resolves = 1))
    => (mainQueue' = mainQueue)

(* only the oldest block is run, and it does its own work: the update   *)
(* installs its items, select hands its id to the overlay that holds    *)
(* the items of the last update, setBadge sets the badge of that id     *)
(* among them                                                           *)
RunTakesOldest ==
    (lastOp'.op \in RunSteps)
    => /\ mainQueue # <<>>
       /\ mainQueue' = Tail(mainQueue)
       /\ lastOp'.op = StepOfBlock[Head(mainQueue).op]
       /\ (Applied("update")' /\ ~crashed') => (items' = Head(mainQueue).items)
       /\ Applied("applySelect")'
             => /\ lastOp'.id = Head(mainQueue).id
                /\ items' = items
                /\ (variant = "uikit" /\ Head(mainQueue).id \in IdsOf(items))
                      => (SelectedId' = Head(mainQueue).id)
                /\ (variant = "swiftui") => (currentInitialId' = Head(mainQueue).id)
       /\ (Applied("applySetBadge")' /\ Head(mainQueue).id \in IdsOf(items))
             => /\ IdsOf(items') = IdsOf(items)
                /\ (variant = "uikit")
                      => (barBadges'[idToIndex(items, Head(mainQueue).id)]
                             = applyBadge(Head(mainQueue).value))
                /\ (variant = "swiftui")
                      => (items'[firstIndex(items, Head(mainQueue).id)].badge
                             = Head(mainQueue).value)

C40_WitnessApplied ==
    /\ variant = "uikit" /\ Applied("applySelect") /\ lastOp.id = "b"
    /\ IdsOf(items) = {"a", "b"} /\ SelectedId = "b"
    /\ mainQueue = <<>>
    /\ nCalls = MaxCalls

====
